---------------------------- MODULE Spec2Model ----------------------------
(***************************************************************************)
(* A model of the catalog extractors of timelinemx-admin: the filename     *)
(* canonicalizers, the slug generator, the image groupers and the merge    *)
(* of a storage listing into a persisted CSV table; and of its tools: the  *)
(* table upload of upload.py, the duplicate cleaner and the pagination     *)
(* loop of generate_jerseys_csv.py.                                        *)
(*                                                                         *)
(* Text is modelled as a sequence of characters, each character a string.  *)
(* Characters outside ASCII are written as bracketed tokens so that the    *)
(* module itself stays ASCII:                                              *)
(*   "<e'>" U+00E9   "<E'>" U+00C9   "<o'>" U+00F3   "<O'>" U+00D3         *)
(*   "<a'>" U+00E1   "<n~>" U+00F1   "<'>"  U+0301 (combining acute)       *)
(*   "<A'>" U+00C1   "<N~>" U+00D1   "<~>"  U+0303 (combining tilde)       *)
(*   "<I.>" U+0130   "<.>"  U+0307 (combining dot)   "<nbsp>" U+00A0       *)
(* Text that is only stored and compared (a name or a URL in a table row)  *)
(* is kept as a TLA+ string, the concatenation of its characters.          *)
(***************************************************************************)
EXTENDS Integers, Sequences, FiniteSets, TLC

VARIABLES
    \* extract_product_name applied to one filename
    filename, product_name,
    \* create_slug applied to one name
    name, slug,
    \* group_images_by_product (jerseys.py, other/extractor.py) and
    \* group_jersey_images (generate_jerseys_csv.py), one loop iteration at a time
    script, images, delete_list, s3_objects, idx, products, seen_combinations,
    skipped_count, duplicate_count, jersey_groups, pc,
    \* runs of one program over its listing and its table file: the program, the
    \* assets the service lists, delete.txt, the table file, the runs so far
    program, listing, delete_txt, csv, runs,
    \* what the last run did: the rows it created, whether its reading of the
    \* table raised, whether the listing is as that run saw it; and the state
    \* of the file before the first run
    new_entities, read_raised, unchanged, origin,
    \* the most assets the listing service returns in one page, the assets the
    \* last run's listing calls gave it, and whether one of the calls raised
    page_size, fetched, fetch_raised,
    \* one cover filename taken to its name and its slug by coleccion.py,
    \* generate_capsule_csv.py or generate_collections_csv.py
    cover_script, cover_filename, cover_name, cover_slug,
    \* one call of upload_single_table of upload.py: its arguments, whether the
    \* Supabase client was made, the rows of the remote table, the backup files
    \* written, the rows read, the calls made so far with what they returned (log),
    \* the statement reached and what the call returned
    table_name, csv_file, supabase, remote_table, backups, data, log, step, returned,
    \* other/duplicate_cleaner.py: the images get_all_images returned, the
    \* public_ids Cloudinary stores, the groups find_duplicates returned, the
    \* dry_run of delete_duplicates, the public_ids it gave to delete_resources,
    \* the ones whose deletion raised, its counter, and the function reached
    listed, cloudinary, duplicates, dry_run, delete_calls, delete_errors, total_deleted, phase,
    \* the pagination loop of generate_jerseys_csv.py, one request at a time: the
    \* responses the service holds for the prefix, one per page, the
    \* continuation token (0 for None), the objects collected in all_objects,
    \* the pages requested so far, and whether the loop runs
    bucket_pages, token, collected, requested, looping

canonVars == <<filename, product_name>>
slugVars == <<name, slug>>
groupVars ==
    <<script, images, delete_list, s3_objects, idx, products, seen_combinations,
      skipped_count, duplicate_count, jersey_groups, pc>>
pipeVars ==
    <<program, listing, delete_txt, csv, runs, new_entities, read_raised, unchanged, origin,
      page_size, fetched, fetch_raised>>
coverVars == <<cover_script, cover_filename, cover_name, cover_slug>>
uploadVars ==
    <<table_name, csv_file, supabase, remote_table, backups, data, log, step, returned>>
cleanerVars ==
    <<listed, cloudinary, duplicates, dry_run, delete_calls, delete_errors, total_deleted,
      phase>>
loopVars == <<bucket_pages, token, collected, requested, looping>>
toolVars == <<uploadVars, cleanerVars, loopVars>>
vars == <<canonVars, slugVars, groupVars, pipeVars, coverVars, toolVars>>

\* The value of a text result that has not been computed yet (no text: its one
\* element is not a character).
NULL == <<"NULL">>

\* All sequences over S of length at most n.
SeqsUpTo(S, n) == UNION {[1..k -> S] : k \in 0..n}

-----------------------------------------------------------------------------
(* Characters and the str methods the sources use.                          *)

Digits == {"0", "1", "2", "3", "4", "5", "6", "7", "8", "9"}

Lowers ==
    {"a", "b", "c", "d", "e", "f", "g", "h", "i", "j", "k", "l", "m",
     "n", "o", "p", "q", "r", "s", "t", "u", "v", "w", "x", "y", "z"}

Uppers ==
    {"A", "B", "C", "D", "E", "F", "G", "H", "I", "J", "K", "L", "M",
     "N", "O", "P", "Q", "R", "S", "T", "U", "V", "W", "X", "Y", "Z"}

\* [a-zA-Z0-9]
AsciiAlnum == Digits \cup Lowers \cup Uppers

\* Letters outside ASCII: str.isalnum() accepts them, [a-zA-Z0-9] does not.
OtherLetters == {"<e'>", "<E'>", "<o'>", "<O'>", "<a'>", "<A'>", "<n~>", "<N~>", "<I.>"}

\* Combining marks (Unicode category Mn).
Marks == {"<'>", "<.>", "<~>"}

\* \s of a str pattern, and what str.strip() and str.split() take as blank.
Whitespace == {" ", "\t", "<nbsp>"}

isalnum(s) == Len(s) > 0 /\ \A i \in 1..Len(s) : s[i] \in AsciiAlnum \cup OtherLetters

isdigit(s) == Len(s) > 0 /\ \A i \in 1..Len(s) : s[i] \in Digits

\* str.lower() of one character; U+0130 lowers to two characters.
LowerChar(c) ==
    CASE c = "A" -> <<"a">> [] c = "B" -> <<"b">> [] c = "C" -> <<"c">>
      [] c = "D" -> <<"d">> [] c = "E" -> <<"e">> [] c = "F" -> <<"f">>
      [] c = "G" -> <<"g">> [] c = "H" -> <<"h">> [] c = "I" -> <<"i">>
      [] c = "J" -> <<"j">> [] c = "K" -> <<"k">> [] c = "L" -> <<"l">>
      [] c = "M" -> <<"m">> [] c = "N" -> <<"n">> [] c = "O" -> <<"o">>
      [] c = "P" -> <<"p">> [] c = "Q" -> <<"q">> [] c = "R" -> <<"r">>
      [] c = "S" -> <<"s">> [] c = "T" -> <<"t">> [] c = "U" -> <<"u">>
      [] c = "V" -> <<"v">> [] c = "W" -> <<"w">> [] c = "X" -> <<"x">>
      [] c = "Y" -> <<"y">> [] c = "Z" -> <<"z">>
      [] c = "<E'>" -> <<"<e'>">> [] c = "<O'>" -> <<"<o'>">>
      [] c = "<A'>" -> <<"<a'>">> [] c = "<N~>" -> <<"<n~>">>
      [] c = "<I.>" -> <<"i", "<.>">>
      [] OTHER -> <<c>>

RECURSIVE lower(_)
lower(s) == IF s = <<>> THEN <<>> ELSE LowerChar(Head(s)) \o lower(Tail(s))

\* The TLA+ string holding the characters of s.
RECURSIVE ToStr(_)
ToStr(s) == IF s = <<>> THEN "" ELSE Head(s) \o ToStr(Tail(s))

\* int() of a digit string.
DigitValue(c) ==
    CASE c = "0" -> 0 [] c = "1" -> 1 [] c = "2" -> 2 [] c = "3" -> 3
      [] c = "4" -> 4 [] c = "5" -> 5 [] c = "6" -> 6 [] c = "7" -> 7
      [] c = "8" -> 8 [] c = "9" -> 9

RECURSIVE int(_)
int(s) == IF s = <<>> THEN 0 ELSE 10 * int(SubSeq(s, 1, Len(s) - 1)) + DigitValue(s[Len(s)])

\* s[i:] and s[:i] with Python's 0-based bounds, for 0 <= i <= len(s).
From(s, i) == SubSeq(s, i + 1, Len(s))
Upto(s, i) == SubSeq(s, 1, i)

\* str.startswith at 0-based offset i.
MatchesAt(s, i, sub) == i + Len(sub) <= Len(s) /\ SubSeq(s, i + 1, i + Len(sub)) = sub

\* sub in s
Contains(s, sub) == \E i \in 0..Len(s) : MatchesAt(s, i, sub)

endswith(s, sub) == Len(sub) <= Len(s) /\ From(s, Len(s) - Len(sub)) = sub

\* str.find: the first 0-based offset of sub in s, -1 when there is none.
find(s, sub) ==
    IF Contains(s, sub)
        THEN CHOOSE i \in 0..Len(s) :
                 MatchesAt(s, i, sub) /\ \A j \in 0..(i - 1) : ~MatchesAt(s, j, sub)
        ELSE -1

\* str.rfind of a single character, -1 when there is none.
rfind(s, c) ==
    IF \E i \in 1..Len(s) : s[i] = c
        THEN (CHOOSE i \in 1..Len(s) : s[i] = c /\ \A j \in (i + 1)..Len(s) : s[j] # c) - 1
        ELSE -1

\* str.replace of one character by another.
replace(s, old, new) == [i \in 1..Len(s) |-> IF s[i] = old THEN new ELSE s[i]]

\* str.strip() and str.strip(chars).
RECURSIVE lstripSet(_, _)
lstripSet(s, cs) == IF s # <<>> /\ Head(s) \in cs THEN lstripSet(Tail(s), cs) ELSE s

RECURSIVE rstripSet(_, _)
rstripSet(s, cs) ==
    IF s # <<>> /\ s[Len(s)] \in cs THEN rstripSet(Upto(s, Len(s) - 1), cs) ELSE s

stripSet(s, cs) == rstripSet(lstripSet(s, cs), cs)

strip(s) == stripSet(s, Whitespace)

\* str.split(sep) for a one-character separator: the list of parts.
RECURSIVE split(_, _)
split(s, sep) ==
    LET i == find(s, <<sep>>)
    IN  IF i = -1 THEN <<s>> ELSE <<Upto(s, i)>> \o split(From(s, i + 1), sep)

\* sep.join(parts)
RECURSIVE join(_, _)
join(parts, sep) ==
    IF parts = <<>> THEN <<>>
    ELSE IF Len(parts) = 1 THEN parts[1]
    ELSE parts[1] \o <<sep>> \o join(Tail(parts), sep)

\* os.path.splitext(p)[0]: p up to its last dot, when that dot lies in the last
\* path component and a character other than a dot precedes it there.
splitext(p) ==
    LET sepIndex == rfind(p, "/")
        dotIndex == rfind(p, ".")
    IN  IF dotIndex > sepIndex
            /\ \E k \in (sepIndex + 1)..(dotIndex - 1) : p[k + 1] # "."
        THEN Upto(p, dotIndex)
        ELSE p

-----------------------------------------------------------------------------
(* More str methods: the ones the cover extractors use.                     *)

\* str.upper() of one character.
UpperChar(c) ==
    CASE c = "a" -> "A" [] c = "b" -> "B" [] c = "c" -> "C" [] c = "d" -> "D"
      [] c = "e" -> "E" [] c = "f" -> "F" [] c = "g" -> "G" [] c = "h" -> "H"
      [] c = "i" -> "I" [] c = "j" -> "J" [] c = "k" -> "K" [] c = "l" -> "L"
      [] c = "m" -> "M" [] c = "n" -> "N" [] c = "o" -> "O" [] c = "p" -> "P"
      [] c = "q" -> "Q" [] c = "r" -> "R" [] c = "s" -> "S" [] c = "t" -> "T"
      [] c = "u" -> "U" [] c = "v" -> "V" [] c = "w" -> "W" [] c = "x" -> "X"
      [] c = "y" -> "Y" [] c = "z" -> "Z"
      [] c = "<e'>" -> "<E'>" [] c = "<o'>" -> "<O'>"
      [] c = "<a'>" -> "<A'>" [] c = "<n~>" -> "<N~>"
      [] OTHER -> c

upper(s) == [i \in 1..Len(s) |-> UpperChar(s[i])]

IsLowerCased(c) == c \in Lowers \cup {"<e'>", "<o'>", "<a'>", "<n~>"}
IsUpperCased(c) == c \in Uppers \cup {"<E'>", "<O'>", "<A'>", "<N~>", "<I.>"}

\* str.title(): a cased character is upper-cased after an uncased one (or at
\* the start) and lower-cased after a cased one; a combining mark is uncased.
RECURSIVE TitleFrom(_, _)
TitleFrom(s, previous_is_cased) ==
    IF s = <<>> THEN <<>>
    ELSE LET c == Head(s)
         IN  IF IsLowerCased(c)
                 THEN (IF previous_is_cased THEN <<c>> ELSE <<UpperChar(c)>>)
                          \o TitleFrom(Tail(s), TRUE)
             ELSE IF IsUpperCased(c)
                 THEN (IF previous_is_cased THEN LowerChar(c) ELSE <<c>>)
                          \o TitleFrom(Tail(s), TRUE)
             ELSE <<c>> \o TitleFrom(Tail(s), FALSE)

title(s) == TitleFrom(s, FALSE)

\* str.replace(old, new) for texts, old not empty: every occurrence, left to right.
RECURSIVE replaceText(_, _, _)
replaceText(s, old, new) ==
    IF s = <<>> THEN <<>>
    ELSE IF MatchesAt(s, 0, old) THEN new \o replaceText(From(s, Len(old)), old, new)
    ELSE <<Head(s)>> \o replaceText(Tail(s), old, new)

\* str.split(): the runs of characters between blanks.
RECURSIVE splitBlank(_)
splitBlank(s) ==
    LET t == lstripSet(s, Whitespace)
    IN  IF t = <<>> THEN <<>>
        ELSE LET k == IF \E i \in 1..Len(t) : t[i] \in Whitespace
                          THEN (CHOOSE i \in 1..Len(t) :
                                    t[i] \in Whitespace /\ \A j \in 1..(i - 1) : t[j] \notin Whitespace) - 1
                          ELSE Len(t)
             IN  <<Upto(t, k)>> \o splitBlank(From(t, k))

\* str.split(sep)[0] for a text sep.
BeforeText(s, sep) == IF Contains(s, sep) THEN Upto(s, find(s, sep)) ELSE s

\* unicodedata.normalize('NFC', s), for the letters and marks of the model: a
\* letter and the combining mark after it become the one character they compose.
Compose(c, m) ==
    CASE c = "e" /\ m = "<'>" -> <<"<e'>">>
      [] c = "E" /\ m = "<'>" -> <<"<E'>">>
      [] c = "o" /\ m = "<'>" -> <<"<o'>">>
      [] c = "O" /\ m = "<'>" -> <<"<O'>">>
      [] c = "a" /\ m = "<'>" -> <<"<a'>">>
      [] c = "A" /\ m = "<'>" -> <<"<A'>">>
      [] c = "I" /\ m = "<.>" -> <<"<I.>">>
      [] c = "n" /\ m = "<~>" -> <<"<n~>">>
      [] c = "N" /\ m = "<~>" -> <<"<N~>">>
      [] OTHER -> <<c, m>>

RECURSIVE NFC(_)
NFC(s) ==
    IF Len(s) < 2 THEN s
    ELSE IF Compose(s[1], s[2]) # <<s[1], s[2]>>
        THEN Compose(s[1], s[2]) \o NFC(From(s, 2))
        ELSE <<s[1]>> \o NFC(Tail(s))

\* unicodedata.normalize('NFD', c) of one character.
Decompose(c) ==
    CASE c = "<e'>" -> <<"e", "<'>">>
      [] c = "<E'>" -> <<"E", "<'>">>
      [] c = "<o'>" -> <<"o", "<'>">>
      [] c = "<O'>" -> <<"O", "<'>">>
      [] c = "<a'>" -> <<"a", "<'>">>
      [] c = "<A'>" -> <<"A", "<'>">>
      [] c = "<n~>" -> <<"n", "<~>">>
      [] c = "<N~>" -> <<"N", "<~>">>
      [] c = "<I.>" -> <<"I", "<.>">>
      [] OTHER -> <<c>>

RECURSIVE NFD(_)
NFD(s) == IF s = <<>> THEN <<>> ELSE Decompose(Head(s)) \o NFD(Tail(s))

\* str(n) for n >= 0.
RECURSIVE str(_)
str(n) ==
    LET d == <<"0", "1", "2", "3", "4", "5", "6", "7", "8", "9">>[(n % 10) + 1]
    IN  IF n < 10 THEN <<d>> ELSE str(n \div 10) \o <<d>>

\* int(s) raises ValueError unless s is a number (here: digits, blanks around).
IsInt(s) == isdigit(strip(s))

-----------------------------------------------------------------------------
(* jerseys.py (and, line for line, other/extractor.py): the product name    *)
(* and the sequence number of a Cloudinary filename.                        *)

\* [a-zA-Z0-9]{6}
IsCode6(s) == Len(s) = 6 /\ \A i \in 1..6 : s[i] \in AsciiAlnum

\* (?:_\d{1,2})?_[a-zA-Z0-9]{6}$ matching the whole of t.
IsCodeTail(t) ==
    \/ Len(t) = 7 /\ t[1] = "_" /\ IsCode6(From(t, 1))
    \/ Len(t) = 9 /\ t[1] = "_" /\ t[2] \in Digits /\ t[3] = "_" /\ IsCode6(From(t, 3))
    \/ Len(t) = 10 /\ t[1] = "_" /\ t[2] \in Digits /\ t[3] \in Digits
           /\ t[4] = "_" /\ IsCode6(From(t, 4))

\* re.match(r'^(.+?)(?:_\d{1,2})?_[a-zA-Z0-9]{6}$', s): whether it matches, and
\* group(1), the shortest non-empty prefix the rest of the pattern can follow.
ProductPatternMatches(s) == \E k \in 1..Len(s) : IsCodeTail(From(s, k))

ProductPatternGroup1(s) ==
    LET k == CHOOSE k \in 1..Len(s) :
                 IsCodeTail(From(s, k)) /\ \A j \in 1..(k - 1) : ~IsCodeTail(From(s, j))
    IN  Upto(s, k)

extract_product_name(fn) ==
    LET name_without_ext == splitext(fn)
        parts == split(name_without_ext, "_")
        n == Len(parts)
    IN  IF ProductPatternMatches(name_without_ext)
            THEN strip(replace(ProductPatternGroup1(name_without_ext), "_", " "))
        ELSE IF n >= 2 /\ Len(parts[n]) = 6 /\ isalnum(parts[n])
            THEN IF n >= 3 /\ Len(parts[n - 1]) <= 2 /\ isdigit(parts[n - 1])
                     THEN strip(replace(join(SubSeq(parts, 1, n - 2), "_"), "_", " "))
                     ELSE strip(replace(join(SubSeq(parts, 1, n - 1), "_"), "_", " "))
        ELSE strip(replace(name_without_ext, "_", " "))

-----------------------------------------------------------------------------
(* coleccion.py and other/capsula.py: create_slug.                          *)

\* re.sub(r'[^a-z0-9\s-]', '', s)
RemoveSpecial(s) == SelectSeq(s, LAMBDA c : c \in Lowers \cup Digits \cup Whitespace \cup {"-"})

\* re.sub of every maximal run of characters of cs by the one character by.
RECURSIVE SubRuns(_, _, _)
SubRuns(s, cs, by) ==
    IF s = <<>> THEN <<>>
    ELSE IF Head(s) \in cs THEN <<by>> \o SubRuns(lstripSet(s, cs), cs, by)
    ELSE <<Head(s)>> \o SubRuns(Tail(s), cs, by)

\* create_slug with the hyphens collapsed before the blanks are replaced.
create_slug_HyphensFirst(nm) ==
    stripSet(SubRuns(SubRuns(RemoveSpecial(lower(nm)), {"-"}, "-"), Whitespace, "-"), {"-"})

\* create_slug without its last line, the strip of hyphens.
create_slug_NoStrip(nm) == SubRuns(SubRuns(RemoveSpecial(lower(nm)), Whitespace, "-"), {"-"}, "-")

create_slug(nm) ==
    LET s1 == lower(nm)
        s2 == RemoveSpecial(s1)
        s3 == SubRuns(s2, Whitespace, "-")
        s4 == SubRuns(s3, {"-"}, "-")
    IN  stripSet(s4, {"-"})

-----------------------------------------------------------------------------
(* jerseys.py and other/extractor.py: group_images_by_product.               *)
(* products is the dict of the source, kept as the sequence of its values   *)
(* in insertion order (the order a Python dict iterates in).                *)

\* The sequence number of an image without one (jerseys.py: "put them last").
NoDigit == 999

\* re.search(r'_(\d{1,2})_[a-zA-Z0-9]{6}$', s) and int(group(1)), or 999: the
\* leftmost match is the two-digit one when both digits are there.
DigitNumber(s) ==
    LET n == Len(s)
    IN  IF n >= 10 /\ Len(From(s, n - 10)) = 10 /\ IsCodeTail(From(s, n - 10))
            THEN int(SubSeq(s, n - 8, n - 7))
        ELSE IF n >= 9 /\ Len(From(s, n - 9)) = 9 /\ IsCodeTail(From(s, n - 9))
            THEN int(SubSeq(s, n - 7, n - 7))
        ELSE NoDigit

\* str(uuid.uuid4()): the k-th token generated by run r, unlike any other.
uuid4(r, k) == <<"uuid4", r, k>>

\* public_id.split("/")[-1]
Basename(public_id) == LET parts == split(public_id, "/") IN parts[Len(parts)]

HasProduct(prods, nm) == \E i \in 1..Len(prods) : prods[i].name = nm

ProductIndex(prods, nm) == CHOOSE i \in 1..Len(prods) : prods[i].name = nm

\* An append that opens a group for every image.
AddImage_NewGroup(prods, nm, pair, r) ==
    Append(prods,
           [id |-> uuid4(r, Len(prods) + 1), name |-> nm, price |-> "",
            description |-> "", images |-> <<pair>>,
            collection_ids |-> "", capsule_ids |-> ""])

\* products[product_name] = {...} if absent, then ['images'].append(pair)
AddImage(prods, nm, pair, r) ==
    IF HasProduct(prods, nm)
        THEN [prods EXCEPT ![ProductIndex(prods, nm)].images = Append(@, pair)]
        ELSE Append(prods,
                    [id |-> uuid4(r, Len(prods) + 1), name |-> nm, price |-> "",
                     description |-> "", images |-> <<pair>>,
                     collection_ids |-> "", capsule_ids |-> ""])

\* The empty state of the loop of group_images_by_product.
GroupStart ==
    [products |-> <<>>, seen_combinations |-> {}, skipped_count |-> 0, duplicate_count |-> 0]

\* A grouper that looks up the delete list only after the duplicate check, and
\* registers the pair of an excluded image.
GroupImage_ExcludeLate(st, image, dl, r) ==
    LET fn == Basename(image.public_id)
        filename_without_ext == splitext(fn)
        pname == ToStr(extract_product_name(fn))
        digit_number == DigitNumber(filename_without_ext)
        combination_key == <<pname, digit_number>>
    IN  IF combination_key \in st.seen_combinations
            THEN [st EXCEPT !.duplicate_count = @ + 1]
        ELSE IF filename_without_ext \in dl
            THEN [st EXCEPT !.skipped_count = @ + 1,
                            !.seen_combinations = @ \cup {combination_key}]
        ELSE [st EXCEPT !.seen_combinations = @ \cup {combination_key},
                        !.products = AddImage(@, pname, <<digit_number, ToStr(image.secure_url)>>, r)]

\* A grouper that drops a duplicate without counting it.
GroupImage_UncountedDuplicate(st, image, dl, r) ==
    LET fn == Basename(image.public_id)
        filename_without_ext == splitext(fn)
        pname == ToStr(extract_product_name(fn))
        digit_number == DigitNumber(filename_without_ext)
        combination_key == <<pname, digit_number>>
    IN  IF filename_without_ext \in dl
            THEN [st EXCEPT !.skipped_count = @ + 1]
        ELSE IF combination_key \in st.seen_combinations
            THEN st
        ELSE [st EXCEPT !.seen_combinations = @ \cup {combination_key},
                        !.products = AddImage(@, pname, <<digit_number, ToStr(image.secure_url)>>, r)]

\* A grouper that keeps every image, whatever was seen before.
GroupImage_KeepDuplicates(st, image, dl, r) ==
    LET fn == Basename(image.public_id)
        filename_without_ext == splitext(fn)
        pname == ToStr(extract_product_name(fn))
        digit_number == DigitNumber(filename_without_ext)
        combination_key == <<pname, digit_number>>
    IN  IF filename_without_ext \in dl
            THEN [st EXCEPT !.skipped_count = @ + 1]
            ELSE [st EXCEPT !.seen_combinations = @ \cup {combination_key},
                            !.products = AddImage(@, pname, <<digit_number, ToStr(image.secure_url)>>, r)]

\* One iteration of the loop of jerseys.group_images_by_product.
GroupImage(st, image, dl, r) ==
    LET fn == Basename(image.public_id)
        filename_without_ext == splitext(fn)
        pname == ToStr(extract_product_name(fn))
        digit_number == DigitNumber(filename_without_ext)
        combination_key == <<pname, digit_number>>
    IN  IF filename_without_ext \in dl
            THEN [st EXCEPT !.skipped_count = @ + 1]
        ELSE IF combination_key \in st.seen_combinations
            THEN [st EXCEPT !.duplicate_count = @ + 1]
        ELSE [st EXCEPT !.seen_combinations = @ \cup {combination_key},
                        !.products = AddImage(@, pname, <<digit_number, ToStr(image.secure_url)>>, r)]

\* One iteration of the loop of extractor.group_images_by_product: no
\* seen_combinations, no duplicate_count.
GroupImageExtractor(st, image, dl, r) ==
    LET fn == Basename(image.public_id)
        filename_without_ext == splitext(fn)
        pname == ToStr(extract_product_name(fn))
        digit_number == DigitNumber(filename_without_ext)
    IN  IF filename_without_ext \in dl
            THEN [st EXCEPT !.skipped_count = @ + 1]
            ELSE [st EXCEPT !.products =
                      AddImage(@, pname, <<digit_number, ToStr(image.secure_url)>>, r)]

\* sorted(pairs, key=lambda x: x[0]): stable, ascending.
RECURSIVE InsertByKey(_, _)
InsertByKey(sorted, x) ==
    IF sorted = <<>> THEN <<x>>
    ELSE IF x[1] < Head(sorted)[1] THEN <<x>> \o sorted
    ELSE <<Head(sorted)>> \o InsertByKey(Tail(sorted), x)

RECURSIVE SortByKey(_)
SortByKey(pairs) ==
    IF pairs = <<>> THEN <<>>
    ELSE InsertByKey(SortByKey(Upto(pairs, Len(pairs) - 1)), pairs[Len(pairs)])

\* The closing loop: each product's images sorted by digit, then the URLs alone.
SortImages(prods) ==
    [i \in 1..Len(prods) |->
        [prods[i] EXCEPT !.images =
            LET sorted_images == SortByKey(prods[i].images)
            IN  [j \in 1..Len(sorted_images) |-> sorted_images[j][2]]]]

\* group_images_by_product as a whole, for the callers of jerseys.py and extractor.py.
RECURSIVE GroupLoop(_, _, _, _)
GroupLoop(st, imgs, dl, r) ==
    IF imgs = <<>> THEN st ELSE GroupLoop(GroupImage(st, Head(imgs), dl, r), Tail(imgs), dl, r)

RECURSIVE GroupLoopExtractor(_, _, _, _)
GroupLoopExtractor(st, imgs, dl, r) ==
    IF imgs = <<>> THEN st
    ELSE GroupLoopExtractor(GroupImageExtractor(st, Head(imgs), dl, r), Tail(imgs), dl, r)

group_images_by_product(imgs, dl, r) == SortImages(GroupLoop(GroupStart, imgs, dl, r).products)

-----------------------------------------------------------------------------
(* generate_jerseys_csv.py: group_jersey_images.                             *)

\* str.replace(old, '') for a text old: every occurrence, left to right.
RECURSIVE removeAll(_, _)
removeAll(s, old) ==
    IF s = <<>> THEN <<>>
    ELSE IF MatchesAt(s, 0, old) THEN removeAll(From(s, Len(old)), old)
    ELSE <<Head(s)>> \o removeAll(Tail(s), old)

\* urllib.parse.quote(key, safe='/') of one character: the unreserved ones and
\* "/" stay, any other becomes the %XX of its UTF-8 bytes.
QuoteChar(c) ==
    CASE c = " " -> <<"%", "2", "0">>
      [] c = "(" -> <<"%", "2", "8">>
      [] c = ")" -> <<"%", "2", "9">>
      [] c = "!" -> <<"%", "2", "1">>
      [] c = "%" -> <<"%", "2", "5">>
      [] c = "\t" -> <<"%", "0", "9">>
      [] c = "<e'>" -> <<"%", "C", "3", "%", "A", "9">>
      [] c = "<E'>" -> <<"%", "C", "3", "%", "8", "9">>
      [] c = "<o'>" -> <<"%", "C", "3", "%", "B", "3">>
      [] c = "<O'>" -> <<"%", "C", "3", "%", "9", "3">>
      [] c = "<a'>" -> <<"%", "C", "3", "%", "A", "1">>
      [] c = "<n~>" -> <<"%", "C", "3", "%", "B", "1">>
      [] c = "<A'>" -> <<"%", "C", "3", "%", "8", "1">>
      [] c = "<N~>" -> <<"%", "C", "3", "%", "9", "1">>
      [] c = "<'>" -> <<"%", "C", "C", "%", "8", "1">>
      [] c = "<.>" -> <<"%", "C", "C", "%", "8", "7">>
      [] c = "<~>" -> <<"%", "C", "C", "%", "8", "3">>
      [] c = "<I.>" -> <<"%", "C", "4", "%", "B", "0">>
      [] c = "<nbsp>" -> <<"%", "C", "2", "%", "A", "0">>
      [] OTHER -> <<c>>

RECURSIVE quote(_)
quote(s) == IF s = <<>> THEN <<>> ELSE QuoteChar(Head(s)) \o quote(Tail(s))

\* f"https://{bucket_name}.s3.{region}.amazonaws.com/" for the bucket "tmx" and
\* the default region.
BucketUrl ==
    <<"h", "t", "t", "p", "s", ":", "/", "/", "t", "m", "x", ".", "s", "3", ".",
      "u", "s", "-", "e", "a", "s", "t", "-", "1", ".", "a", "m", "a", "z", "o",
      "n", "a", "w", "s", ".", "c", "o", "m", "/">>

S3Url(key) == ToStr(BucketUrl \o quote(key))

ImageExtensions ==
    { <<".", "p", "n", "g">>, <<".", "j", "p", "g">>, <<".", "j", "p", "e", "g">> }

\* key.endswith('/') or not key.lower().endswith(('.png', '.jpg', '.jpeg'))
NotAnImageKey(key) ==
    endswith(key, <<"/">>) \/ ~\E e \in ImageExtensions : endswith(lower(key), e)

AllJerseysPrefix == <<"a", "l", "l", "-", "j", "e", "r", "s", "e", "y", "s", "/">>

\* re.match(r'^(.+?)\s*\((\d+)\)\.(png|jpg|jpeg)$', fn, re.IGNORECASE): the
\* offsets (0-based) of "(" and ")" when fn matches, as a set of at most one pair.
JerseyPatternParse(fn) ==
    { <<o, c>> \in (0..Len(fn)) \X (0..Len(fn)) :
        /\ o >= 1
        /\ o + 1 < c
        /\ c < Len(fn)
        /\ fn[o + 1] = "("
        /\ fn[c + 1] = ")"
        /\ \A i \in (o + 2)..c : fn[i] \in Digits
        /\ \E e \in ImageExtensions : lower(From(fn, c + 1)) = e }

\* group(1): the shortest non-empty prefix that only blanks separate from "(".
JerseyPatternGroup1(fn, o) ==
    LET head == Upto(fn, o)
        k == Len(rstripSet(head, Whitespace))
    IN  Upto(head, IF k = 0 THEN 1 ELSE k)

HasGroup(groups, nm) == \E i \in 1..Len(groups) : groups[i].name = nm

\* jersey_groups[jersey_name].append(entry), jersey_groups a defaultdict(list)
AddEntry(groups, nm, entry) ==
    IF HasGroup(groups, nm)
        THEN [groups EXCEPT ![CHOOSE i \in 1..Len(groups) : groups[i].name = nm].images =
                  Append(@, entry)]
        ELSE Append(groups, [name |-> nm, images |-> <<entry>>])

\* A grouper that files an image of no 'Name (N).ext' form under its filename.
GroupJerseyImage_KeepUnnumbered(groups, obj) ==
    LET key == obj.Key
        fn == removeAll(key, AllJerseysPrefix)
        parse == JerseyPatternParse(fn)
    IN  IF NotAnImageKey(key) THEN groups
        ELSE IF parse = {}
            THEN AddEntry(groups, ToStr(fn), [number |-> NoDigit, url |-> S3Url(key), filename |-> ToStr(fn)])
        ELSE LET oc == CHOOSE x \in parse : TRUE
                 jersey_name == ToStr(strip(JerseyPatternGroup1(fn, oc[1])))
                 image_number == int(SubSeq(fn, oc[1] + 2, oc[2]))
             IN  AddEntry(groups, jersey_name,
                          [number |-> image_number, url |-> S3Url(key), filename |-> ToStr(fn)])

\* One iteration of the first loop of group_jersey_images.
GroupJerseyImage(groups, obj) ==
    LET key == obj.Key
        fn == removeAll(key, AllJerseysPrefix)
        parse == JerseyPatternParse(fn)
    IN  IF NotAnImageKey(key) THEN groups
        ELSE IF parse = {} THEN groups
        ELSE LET oc == CHOOSE x \in parse : TRUE
                 jersey_name == ToStr(strip(JerseyPatternGroup1(fn, oc[1])))
                 image_number == int(SubSeq(fn, oc[1] + 2, oc[2]))
             IN  AddEntry(groups, jersey_name,
                          [number |-> image_number, url |-> S3Url(key), filename |-> ToStr(fn)])

\* jersey_groups[jersey_name].sort(key=lambda x: x['number']): stable, ascending.
RECURSIVE InsertByNumber(_, _)
InsertByNumber(sorted, x) ==
    IF sorted = <<>> THEN <<x>>
    ELSE IF x.number < Head(sorted).number THEN <<x>> \o sorted
    ELSE <<Head(sorted)>> \o InsertByNumber(Tail(sorted), x)

RECURSIVE SortByNumber(_)
SortByNumber(entries) ==
    IF entries = <<>> THEN <<>>
    ELSE InsertByNumber(SortByNumber(Upto(entries, Len(entries) - 1)), entries[Len(entries)])

SortJerseyGroups(groups) ==
    [i \in 1..Len(groups) |-> [groups[i] EXCEPT !.images = SortByNumber(@)]]

RECURSIVE GroupJerseyLoop(_, _)
GroupJerseyLoop(groups, objs) ==
    IF objs = <<>> THEN groups ELSE GroupJerseyLoop(GroupJerseyImage(groups, Head(objs)), Tail(objs))

group_jersey_images(objs) == SortJerseyGroups(GroupJerseyLoop(<<>>, objs))

-----------------------------------------------------------------------------
(* jerseys.py: the filter that keeps the jersey images of the account.      *)

Zxzx == <<"z", "x", "z", "x">>

SamplesFolder == <<"s", "a", "m", "p", "l", "e", "s", "/">>

\* re.search(word + r'_1_[a-zA-Z0-9]{6}', l)
HasCoverCode(l, word) ==
    \E i \in 0..Len(l) :
        /\ MatchesAt(l, i, word \o <<"_", "1", "_">>)
        /\ i + Len(word) + 9 <= Len(l)
        /\ IsCode6(SubSeq(l, i + Len(word) + 4, i + Len(word) + 9))

cover_patterns ==
    { <<"c", "o", "l", "e", "c", "c", "i", "o", "%", "c", "c", "%", "8", "1", "n">>,
      <<"c", "o", "l", "e", "c", "c", "i", "<o'>", "n">>,
      <<"c", "o", "l", "e", "c", "c", "i", "o", "n">>,
      <<"c", "o", "l", "l", "e", "c", "t", "i", "o", "n">>,
      <<"c", "o", "v", "e", "r">>,
      <<"p", "o", "r", "t", "a", "d", "a">>,
      <<"c", "a", "p", "s", "u", "l", "e">>,
      <<"c", "a", "p", "s", "u", "l", "a">> }

is_cover_image(fn) ==
    LET filename_lower == lower(fn)
    IN  \/ HasCoverCode(filename_lower, <<"c", "o", "l", "e", "c", "c", "i", "o", "%",
                                          "c", "c", "%", "8", "1", "n">>)
        \/ HasCoverCode(filename_lower, <<"c", "o", "l", "e", "c", "c", "i", "o", "n">>)
        \/ HasCoverCode(filename_lower, <<"c", "o", "l", "e", "c", "c", "i", "<o'>", "n">>)
        \/ Contains(filename_lower, Zxzx)
        \/ \E pattern \in cover_patterns : Contains(filename_lower, pattern)

\* The filter loop of get_jersey_images_only: no sample, no cover.
get_jersey_images_only(all_images) ==
    SelectSeq(all_images,
              LAMBDA image :
                  /\ ~Contains(image.public_id, SamplesFolder)
                  /\ ~(is_cover_image(Basename(image.public_id)) \/ is_cover_image(image.secure_url)))

-----------------------------------------------------------------------------
(* coleccion.py: the collection covers of the account and their names.      *)

is_collection_cover(fn, url) == Contains(lower(fn), Zxzx) \/ Contains(lower(url), Zxzx)

\* re.match(r'^(.+?)(?:_zxzx.*)?$', s, re.IGNORECASE).group(1): the shortest
\* non-empty prefix that _zxzx or the end follows.
ZxzxFallbackGroup1(s) ==
    LET ends == {k \in 1..Len(s) :
                    \/ k = Len(s)
                    \/ k + 5 <= Len(s) /\ lower(SubSeq(s, k + 1, k + 5)) = <<"_">> \o Zxzx}
    IN  IF s = <<>> THEN s
        ELSE Upto(s, CHOOSE k \in ends : \A j \in ends : k <= j)

extract_collection_name(fn) ==
    LET name_without_ext ==
            replaceText(splitext(fn), <<"%", "C", "C", "%", "8", "1">>, <<"<a'>">>)
        parts == split(name_without_ext, "_")
        markers == {i \in 1..Len(parts) : upper(parts[i]) = upper(Zxzx)}
        collection_parts ==
            IF markers = {} THEN parts
            ELSE SubSeq(parts, 1, (CHOOSE i \in markers : \A j \in markers : i <= j) - 1)
        collection_name ==
            IF collection_parts # <<>> THEN join(collection_parts, "_")
            ELSE ZxzxFallbackGroup1(name_without_ext)
    IN  title(strip(replace(collection_name, "_", " ")))

\* The filter loop of get_collection_covers (and of get_capsule_covers): one
\* cover, with its name, for every image that is no sample and is a cover.
RECURSIVE get_collection_covers(_)
get_collection_covers(all_images) ==
    IF all_images = <<>> THEN <<>>
    ELSE LET image == Head(all_images)
             fn == Basename(image.public_id)
         IN  (IF ~Contains(image.public_id, SamplesFolder)
                    /\ is_collection_cover(fn, image.secure_url)
                 THEN <<[filename |-> ToStr(fn),
                         name |-> extract_collection_name(fn),
                         url |-> ToStr(image.secure_url)]>>
                 ELSE <<>>)
             \o get_collection_covers(Tail(all_images))

-----------------------------------------------------------------------------
(* generate_capsule_csv.py and generate_collections_csv.py: the clean name, *)
(* the slug and the URL of a cover object.                                  *)

\* normalize_string: the marks of the decomposed text dropped, lower case.
normalize_string(s) == lower(SelectSeq(NFD(s), LAMBDA c : c \notin Marks))

CoverSlug(clean_name) ==
    replace(normalize_string(clean_name), " ", "-") \o <<"-", "c", "o", "l", "e", "c", "c",
                                                    "i", "o", "n">>

\* ' '.join(words)
JoinWords(words) == join(words, " ")

\* generate_capsule_csv.py: the name up to " Colección", or without its last
\* two words when it holds a "(".
CapsuleCleanName(fn) ==
    LET clean_name == splitext(fn)
        normalized == NFC(clean_name)
        words == splitBlank(clean_name)
    IN  strip(IF Contains(normalized, <<"C", "o", "l", "e", "c", "c", "i", "<o'>", "n">>)
                  THEN BeforeText(normalized, <<" ", "C", "o", "l", "e", "c", "c", "i", "<o'>",
                                          "n">>)
              ELSE IF Contains(normalized, <<"c", "o", "l", "e", "c", "c", "i", "<o'>", "n">>)
                  THEN BeforeText(normalized, <<" ", "c", "o", "l", "e", "c", "c", "i", "<o'>",
                                          "n">>)
              ELSE IF Len(words) >= 2 /\ Contains(clean_name, <<"(">>)
                  THEN JoinWords(SubSeq(words, 1, Len(words) - 2))
              ELSE clean_name)

\* The lower case of c as re.IGNORECASE takes it: one character.
FoldChar(c) == IF c = "<I.>" THEN "i" ELSE LowerChar(c)[1]

Fold(s) == [i \in 1..Len(s) |-> FoldChar(s[i])]

\* re.sub(r'\s+' + word + r'\s*', ' ', s, flags=re.IGNORECASE)
RECURSIVE SubWord(_, _)
SubWord(s, word) ==
    IF s = <<>> THEN <<>>
    ELSE LET t == lstripSet(s, Whitespace)
         IN  IF Head(s) \in Whitespace /\ Len(t) >= Len(word) /\ Fold(Upto(t, Len(word))) = Fold(word)
                 THEN <<" ">> \o SubWord(lstripSet(From(t, Len(word)), Whitespace), word)
                 ELSE <<Head(s)>> \o SubWord(Tail(s), word)

\* re.sub(r'\s*\(\d+\)$', '', s)
DropTrailingNumber(s) ==
    LET n == Len(s)
        opens == {o \in 1..n : s[o] = "(" /\ o + 1 < n /\ \A i \in (o + 1)..(n - 1) : s[i] \in Digits}
    IN  IF n >= 3 /\ s[n] = ")" /\ opens # {}
            THEN rstripSet(Upto(s, (CHOOSE o \in opens : TRUE) - 1), Whitespace)
            ELSE s

\* generate_collections_csv.py: the name without "(N)", ZXZX, Collection and
\* Colección, its words joined by single blanks.
CollectionsCleanName(fn) ==
    LET s1 == DropTrailingNumber(splitext(fn))
        s2 == SubWord(s1, Zxzx)
        s3 == SubWord(s2, <<"C", "o", "l", "l", "e", "c", "t", "i", "o", "n">>)
        s4 == SubWord(s3, <<"C", "o", "l", "e", "c", "c", "i", "<o'>", "n">>)
    IN  strip(JoinWords(splitBlank(s4)))

PortadaCapsulePrefix == <<"p", "o", "r", "t", "a", "d", "a", "-", "c", "a", "p",
                                "s", "u", "l", "e", "/">>

PortadaCollectionsPrefix == <<"p", "o", "r", "t", "a", "d", "a", "-", "c", "o", "l",
                                "l", "e", "c", "t", "i", "o", "n", "s", "/">>

-----------------------------------------------------------------------------
(* The persisted table: a CSV file with a header line and one line per row. *)
(* A row is the record csv.DictReader makes of a line under the header the  *)
(* writers write; csv.DictWriter writes it back field for field.            *)

NoFile == [exists |-> FALSE, header |-> FALSE, rows |-> <<>>]

\* A file of no bytes: it exists and has no header line.
EmptyFile == [exists |-> TRUE, header |-> FALSE, rows |-> <<>>]

Table(rows) == [exists |-> TRUE, header |-> TRUE, rows |-> rows]

\* open(f, 'a' if file_exists else 'w'), writeheader() only if the file did
\* not exist, then one writerow per new row.
AppendRows(f, new_rows) ==
    IF f.exists THEN [f EXCEPT !.rows = @ \o new_rows] ELSE Table(new_rows)

\* open(f, 'w'), writeheader(), then one writerow per row.
RewriteRows(all_rows) == Table(all_rows)

\* The rows csv.DictReader yields: every line after the first one, which it
\* takes for the header whatever it holds.
DataRows(f) == IF f.header \/ f.rows = <<>> THEN f.rows ELSE Tail(f.rows)

\* json.dumps(urls): the JSON text of the list, kept as the list it encodes.
json_dumps(urls) == [json |-> urls]

Max(S) == CHOOSE m \in S : \A x \in S : x <= m

-----------------------------------------------------------------------------
(* jerseys.py: load_existing_products and save_products_to_csv.             *)

\* row['name'] of every row; without the header line no column is called
\* 'name' (no field of the model's rows holds that text) and the first row
\* read raises KeyError, which leaves the set empty.
load_existing_products(f) ==
    IF f.exists /\ f.header THEN {f.rows[i].name : i \in 1..Len(f.rows)} ELSE {}

\* Whether the except branch of the loader is taken.
LoadProductsRaises(f) == f.exists /\ ~f.header /\ DataRows(f) # <<>>

\* Products of every name, persisted or not.
NewProducts_All(prods, existing_products) == prods

\* "Filter out products that already exist"
NewProducts(prods, existing_products) ==
    SelectSeq(prods, LAMBDA p : p.name \notin existing_products)

\* product_copy with images as JSON text, as writer.writerow writes it.
ProductRow(product) == [product EXCEPT !.images = json_dumps(@)]

\* The rows of the new products, the last one first.
ProductRows_Reversed(prods) ==
    [i \in 1..Len(prods) |-> [prods[Len(prods) + 1 - i] EXCEPT !.images = json_dumps(@)]]

ProductRows(prods) == [i \in 1..Len(prods) |-> ProductRow(prods[i])]

-----------------------------------------------------------------------------
(* generate_jerseys_csv.py: load_existing_csv and the merge.                *)

\* existing_data and existing_names: every row, and row['name'] of every row.
\* Without the header line the first row read is kept and then raises
\* KeyError, having no column 'name'; its keys are the cells of the first
\* line, and csv.DictWriter cannot write it back.
LoadJerseysCsv(f) ==
    [existing_data |-> IF ~f.exists THEN <<>>
                       ELSE IF f.header THEN f.rows
                       ELSE IF DataRows(f) = <<>> THEN <<>>
                       ELSE <<Head(DataRows(f))>>,
     existing_names |-> load_existing_products(f),
     unwritable |-> LoadProductsRaises(f)]

\* One entry for every group whose name is not persisted, in group order.
RECURSIVE JerseyEntries(_, _, _, _)
JerseyEntries(groups, existing_names, r, jerseys_processed) ==
    IF groups = <<>> THEN <<>>
    ELSE LET g == Head(groups)
         IN  IF g.name \in existing_names
                 THEN JerseyEntries(Tail(groups), existing_names, r, jerseys_processed)
                 ELSE <<[id |-> uuid4(r, jerseys_processed + 1),
                         name |-> g.name,
                         price |-> "",
                         description |-> "",
                         images |-> json_dumps([i \in 1..Len(g.images) |-> g.images[i].url]),
                         collection_ids |-> "",
                         capsule_ids |-> ""]>>
                      \o JerseyEntries(Tail(groups), existing_names, r, jerseys_processed + 1)

-----------------------------------------------------------------------------
(* coleccion.py and other/capsula.py: load_existing_collections and         *)
(* save_collections_to_csv (load_existing_capsules, save_capsules_to_csv).  *)

\* existing_collections[row['Name']] = int(row['id']) row after row, up to
\* the first row whose id is no number.
RECURSIVE LoadCollectionRows(_, _)
LoadCollectionRows(rows, existing_collections) ==
    IF rows = <<>> THEN [existing_collections |-> existing_collections, raised |-> FALSE]
    ELSE IF ~IsInt(Head(rows).id)
        THEN [existing_collections |-> existing_collections, raised |-> TRUE]
    ELSE LoadCollectionRows(Tail(rows),
                            [n \in DOMAIN existing_collections \cup {Head(rows).Name} |->
                                IF n = Head(rows).Name THEN int(strip(Head(rows).id))
                                ELSE existing_collections[n]])

\* The mapping name -> id; without the header line the first row read has no
\* column 'Name' and raises KeyError.
load_existing_collections(f) ==
    IF ~f.exists THEN [existing_collections |-> <<>>, raised |-> FALSE]
    ELSE IF f.header THEN LoadCollectionRows(f.rows, <<>>)
    ELSE [existing_collections |-> <<>>, raised |-> DataRows(f) # <<>>]

\* next_id = max(existing_collections.values()) + 1 if existing_collections else 1
NextCollectionId(existing_collections) ==
    IF DOMAIN existing_collections = {} THEN 1
    ELSE Max({existing_collections[n] : n \in DOMAIN existing_collections}) + 1

\* One row for every cover whose name is not in existing_collections.
RECURSIVE NewCollections(_, _, _)
NewCollections(collection_covers, existing_collections, next_id) ==
    IF collection_covers = <<>> THEN <<>>
    ELSE LET cover == Head(collection_covers)
         IN  IF ToStr(cover.name) \notin DOMAIN existing_collections
                 THEN <<[id |-> str(next_id),
                         Name |-> ToStr(cover.name),
                         slug |-> ToStr(create_slug(cover.name)),
                         description |-> "",
                         cover |-> cover.url]>>
                      \o NewCollections(Tail(collection_covers), existing_collections, next_id + 1)
                 ELSE NewCollections(Tail(collection_covers), existing_collections, next_id)

\* save_collections_to_csv: the rows it writes and the file it leaves.
save_collections_to_csv(f, collection_covers) ==
    LET loaded == load_existing_collections(f)
        new_collections ==
            NewCollections(collection_covers, loaded.existing_collections,
                           NextCollectionId(loaded.existing_collections))
    IN  IF collection_covers = <<>>
            THEN [file |-> f, new |-> <<>>, raised |-> FALSE]
            ELSE [file |-> IF new_collections = <<>> THEN f ELSE AppendRows(f, new_collections),
                  new |-> new_collections,
                  raised |-> loaded.raised]

-----------------------------------------------------------------------------
(* generate_capsule_csv.py and generate_collections_csv.py: load_existing_csv *)
(* and the merge.                                                           *)

\* Row after row: the row is kept, its cover is known, then int(row['id'])
\* moves next_id or raises, which ends the reading.
RECURSIVE LoadCoverRows(_, _)
LoadCoverRows(rows, st) ==
    IF rows = <<>> THEN st
    ELSE LET row == Head(rows)
             kept == [st EXCEPT !.existing_data = Append(@, row),
                                !.existing_urls = @ \cup {row.cover}]
         IN  IF ~IsInt(row.id) THEN [kept EXCEPT !.raised = TRUE]
             ELSE LoadCoverRows(Tail(rows),
                                [kept EXCEPT !.next_id =
                                    IF int(strip(row.id)) + 1 > @ THEN int(strip(row.id)) + 1 ELSE @])

LoadStart ==
    [existing_data |-> <<>>, existing_urls |-> {}, next_id |-> 1, raised |-> FALSE,
     unwritable |-> FALSE]

\* Without the header line the first row read is kept and then raises
\* KeyError, having no column 'cover'; its keys are the cells of the first
\* line, and csv.DictWriter cannot write it back.
load_existing_csv(f) ==
    IF ~f.exists THEN LoadStart
    ELSE IF f.header THEN LoadCoverRows(f.rows, LoadStart)
    ELSE IF DataRows(f) = <<>> THEN LoadStart
    ELSE [LoadStart EXCEPT !.existing_data = <<Head(DataRows(f))>>, !.raised = TRUE,
                           !.unwritable = TRUE]

\* One entry for every image object under the prefix whose URL is not persisted.
RECURSIVE CoverEntries(_, _, _, _, _)
CoverEntries(contents, kind, existing_urls, next_id, files_processed) ==
    IF contents = <<>> THEN <<>>
    ELSE LET key == Head(contents).Key
             fn == removeAll(key, IF kind = "capsule" THEN PortadaCapsulePrefix
                                                      ELSE PortadaCollectionsPrefix)
             clean_name == IF kind = "capsule" THEN CapsuleCleanName(fn)
                                               ELSE CollectionsCleanName(fn)
             cover_url == S3Url(key)
         IN  IF NotAnImageKey(key) \/ cover_url \in existing_urls
                 THEN CoverEntries(Tail(contents), kind, existing_urls, next_id, files_processed)
                 ELSE <<[id |-> str(next_id + files_processed),
                         Name |-> ToStr(clean_name),
                         slug |-> ToStr(CoverSlug(clean_name)),
                         description |-> "",
                         cover |-> cover_url]>>
                      \o CoverEntries(Tail(contents), kind, existing_urls, next_id,
                                      files_processed + 1)

\* generate_capsule_csv / generate_collections_csv after the connection: the
\* entries created and the file left. A row that cannot be written back ends
\* the writing after the header line.
generate_cover_csv(f, contents, kind) ==
    LET loaded == load_existing_csv(f)
        new_entries == CoverEntries(contents, kind, loaded.existing_urls, loaded.next_id, 0)
    IN  IF contents = <<>> \/ (new_entries = <<>> /\ loaded.existing_data = <<>>)
            THEN [file |-> f, new |-> <<>>, raised |-> loaded.raised]
        ELSE IF loaded.unwritable
            THEN [file |-> RewriteRows(<<>>), new |-> <<>>, raised |-> TRUE]
        ELSE [file |-> RewriteRows(loaded.existing_data \o new_entries),
              new |-> new_entries,
              raised |-> loaded.raised]

-----------------------------------------------------------------------------
(* SpecCanon: extract_product_name applied to a filename. The filenames are  *)
(* underscore-joined segments, with or without an extension.                *)

\* The most segments of a filename.
MaxSegs == 4

Segments ==
    { <<"R", "e">>,                          \* a word
      <<"S", "t", ".">>,                     \* a word with a dot
      <<"0", "3", "-", "0", "4">>,           \* a season
      <<"5">>, <<"1", "2">>,                 \* 1-2 digits
      <<"1", "2", "3">>,                     \* 3 digits
      <<"a", "b", "1", "2", "c", "d">>,      \* a storage code
      <<"<n~>", "b", "1", "2", "c", "d">>,   \* 6 alphanumerics, one not ASCII
      <<>> }                                 \* nothing between two underscores

Extensions == { <<>>, <<".", "p", "n", "g">> }

FileNames ==
    { join(segs, "_") \o ext :
        segs \in SeqsUpTo(Segments, MaxSegs) \ {<<>>}, ext \in Extensions }

CanonIdle == filename = <<>> /\ product_name = NULL

CanonInit == filename \in FileNames /\ product_name = NULL

Canonicalize ==
    /\ product_name = NULL
    /\ product_name' = extract_product_name(filename)
    /\ UNCHANGED filename

-----------------------------------------------------------------------------
(* SpecSlug: create_slug applied to a name.                                 *)

\* The most characters of a name given to create_slug.
MaxNameLen == 4

NameChars == {"a", "B", "7", " ", "\t", "-", "_", "!", "<e'>", "<E'>", "<I.>", "<nbsp>"}

SlugIdle == name = <<>> /\ slug = NULL

SlugInit == name \in SeqsUpTo(NameChars, MaxNameLen) /\ slug = NULL

MakeSlug ==
    /\ slug = NULL
    /\ slug' = create_slug(name)
    /\ UNCHANGED name

-----------------------------------------------------------------------------
(* SpecGroup: the groupers run over a listing, one loop iteration per step. *)

\* The most images (or S3 objects) of a listing given to a grouper.
MaxImages == 3

\* The sequences of at most n distinct elements of S.
DistinctSeqs(S, n) ==
    {s \in SeqsUpTo(S, n) : \A i, j \in 1..Len(s) : i # j => s[i] # s[j]}

CdnPrefix == <<"h", "t", "t", "p", "s", ":", "/", "/", "c", "d", "n", "/">>

\* A Cloudinary resource: its public_id and the secure_url Cloudinary gives it.
Resource(public_id) ==
    [public_id |-> public_id, secure_url |-> CdnPrefix \o public_id \o <<".", "j", "p", "g">>]

\* Jersey images: one product with images 1, 2 and 12, a second upload of its
\* image 1 and an image without a number; a filename of no pattern, in a
\* folder; images 2 and 1 of a product whose name holds a dot.
JerseyResources ==
    { Resource(<<"R", "e", "_", "1", "_", "a", "b", "1", "2", "c", "d">>),
      Resource(<<"R", "e", "_", "2", "_", "x", "y", "9", "9", "q", "w">>),
      Resource(<<"R", "e", "_", "1", "_", "z", "z", "0", "0", "z", "z">>),
      Resource(<<"R", "e", "_", "a", "b", "1", "2", "c", "d">>),
      Resource(<<"R", "e", "_", "1", "2", "_", "a", "b", "1", "2", "c", "d">>),
      Resource(<<"t", "m", "x", "/", "f", "o", "t", "o", "_", "x">>),
      Resource(<<"S", "t", ".", "_", "P", "a", "u", "l", "i", "_", "2", "_", "a", "b",
                   "1", "2", "c", "d">>),
      Resource(<<"S", "t", ".", "_", "P", "a", "u", "l", "i", "_", "1", "_", "x", "y",
                   "9", "9", "q", "w">>) }

DeleteLists ==
    { {},
      {<<"R", "e", "_", "1", "_", "a", "b", "1", "2", "c", "d">>},
      {<<"R", "e", "_", "a", "b", "1", "2", "c", "d">>, <<"g", "o", "n", "e">>} }

\* Objects under all-jerseys/: numbered images of two jerseys, an image without
\* a number, the folder marker and a file that is no image.
JerseyObjects ==
    { [Key |-> <<"a", "l", "l", "-", "j", "e", "r", "s", "e", "y", "s", "/", "R", "e",
                 " ", "(", "1", ")", ".", "p", "n", "g">>],
      [Key |-> <<"a", "l", "l", "-", "j", "e", "r", "s", "e", "y", "s", "/", "R", "e",
                 " ", "(", "2", ")", ".", "p", "n", "g">>],
      [Key |-> <<"a", "l", "l", "-", "j", "e", "r", "s", "e", "y", "s", "/", "R", "e",
                 "(", "1", "0", ")", ".", "J", "P", "G">>],
      [Key |-> <<"a", "l", "l", "-", "j", "e", "r", "s", "e", "y", "s", "/", "R", "e",
                 ".", "p", "n", "g">>],
      [Key |-> <<"a", "l", "l", "-", "j", "e", "r", "s", "e", "y", "s", "/">>],
      [Key |-> <<"a", "l", "l", "-", "j", "e", "r", "s", "e", "y", "s", "/", "S", "t",
                 " ", "(", "1", ")", ".", "j", "p", "e", "g">>],
      [Key |-> <<"a", "l", "l", "-", "j", "e", "r", "s", "e", "y", "s", "/", "R", "e",
                 " ", "(", "1", ")", ".", "t", "x", "t">>] }

GroupScripts == {"jerseys.py", "extractor.py", "generate_jerseys_csv.py"}

GroupIdle ==
    /\ script = "none" /\ images = <<>> /\ delete_list = {} /\ s3_objects = <<>>
    /\ idx = 0 /\ products = <<>> /\ seen_combinations = {}
    /\ skipped_count = 0 /\ duplicate_count = 0 /\ jersey_groups = <<>> /\ pc = "idle"

GroupInit ==
    /\ script \in GroupScripts
    /\ IF script = "generate_jerseys_csv.py"
           THEN /\ s3_objects \in DistinctSeqs(JerseyObjects, MaxImages)
                /\ images = <<>>
                /\ delete_list = {}
           ELSE /\ images \in DistinctSeqs(JerseyResources, MaxImages)
                /\ delete_list \in DeleteLists
                /\ s3_objects = <<>>
    /\ idx = 0 /\ products = <<>> /\ seen_combinations = {}
    /\ skipped_count = 0 /\ duplicate_count = 0 /\ jersey_groups = <<>> /\ pc = "loop"

GroupState ==
    [products |-> products, seen_combinations |-> seen_combinations,
     skipped_count |-> skipped_count, duplicate_count |-> duplicate_count]

SetGroupState(st) ==
    /\ products' = st.products
    /\ seen_combinations' = st.seen_combinations
    /\ skipped_count' = st.skipped_count
    /\ duplicate_count' = st.duplicate_count

\* jerseys.py: the body of "for image in images" for the next image.
GroupNextImage ==
    /\ script = "jerseys.py" /\ pc = "loop" /\ idx < Len(images)
    /\ SetGroupState(GroupImage(GroupState, images[idx + 1], delete_list, 0))
    /\ idx' = idx + 1
    /\ UNCHANGED <<script, images, delete_list, s3_objects, jersey_groups, pc>>

\* other/extractor.py: the body of "for image in images" for the next image.
GroupNextImageExtractor ==
    /\ script = "extractor.py" /\ pc = "loop" /\ idx < Len(images)
    /\ SetGroupState(GroupImageExtractor(GroupState, images[idx + 1], delete_list, 0))
    /\ idx' = idx + 1
    /\ UNCHANGED <<script, images, delete_list, s3_objects, jersey_groups, pc>>

\* jerseys.py and other/extractor.py: the sort of every product's images, and the return.
GroupSort ==
    /\ script \in {"jerseys.py", "extractor.py"} /\ pc = "loop" /\ idx = Len(images)
    /\ products' = SortImages(products)
    /\ pc' = "done"
    /\ UNCHANGED <<script, images, delete_list, s3_objects, idx, seen_combinations,
                   skipped_count, duplicate_count, jersey_groups>>

\* generate_jerseys_csv.py: the body of "for obj in s3_objects" for the next object.
GroupNextObject ==
    /\ script = "generate_jerseys_csv.py" /\ pc = "loop" /\ idx < Len(s3_objects)
    /\ jersey_groups' = GroupJerseyImage(jersey_groups, s3_objects[idx + 1])
    /\ idx' = idx + 1
    /\ UNCHANGED <<script, images, delete_list, s3_objects, products, seen_combinations,
                   skipped_count, duplicate_count, pc>>

\* generate_jerseys_csv.py: the sort of every group, and the return.
GroupSortObjects ==
    /\ script = "generate_jerseys_csv.py" /\ pc = "loop" /\ idx = Len(s3_objects)
    /\ jersey_groups' = SortJerseyGroups(jersey_groups)
    /\ pc' = "done"
    /\ UNCHANGED <<script, images, delete_list, s3_objects, idx, products,
                   seen_combinations, skipped_count, duplicate_count>>

-----------------------------------------------------------------------------
(* Runs of one program: main() from the listing to the table file. In Spec   *)
(* the service answers every listing in one page and no call raises; in     *)
(* SpecList it answers in pages and a call of a run may raise.              *)

MaxListing == 2
MaxRows == 2
MaxRuns == 2

Programs ==
    {"jerseys.py", "generate_jerseys_csv.py", "coleccion.py", "capsula.py",
     "generate_capsule_csv.py", "generate_collections_csv.py"}

\* The assets an account or a bucket prefix may hold, per program.
JerseyAccount ==
    { Resource(<<"R", "e", "_", "1", "_", "a", "b", "1", "2", "c", "d">>),
      Resource(<<"R", "e", "_", "2", "_", "x", "y", "9", "9", "q", "w">>),
      Resource(<<"V", "a", "_", "1", "_", "a", "b", "1", "2", "c", "d">>),
      Resource(<<"s", "a", "m", "p", "l", "e", "s", "/", "R", "e", "_", "3", "_", "a", "b",
              "1", "2", "c", "d">>),
      Resource(<<"L", "i", "g", "a", "_", "Z", "X", "Z", "X", "_", "1", "_", "a", "b", "1",
              "2", "c", "d">>) }

CoverAccount ==
    { Resource(<<"L", "i", "g", "a", "_", "Z", "X", "Z", "X", "_", "1", "_", "a", "b", "1",
              "2", "c", "d">>),
      Resource(<<"L", "i", "g", "a", "_", "Z", "X", "Z", "X", "_", "2", "_", "x", "y", "9",
              "9", "q", "w">>),
      Resource(<<"C", "o", "p", "a", "_", "z", "x", "z", "x", "_", "a", "b", "1", "2", "c",
              "d">>),
      Resource(<<"R", "e", "_", "1", "_", "a", "b", "1", "2", "c", "d">>) }

\* What get_capsule_covers returns for the capsule covers of an account.
CapsuleCovers ==
    { [filename |-> "Retro_Coleccion_1_ab12cd", name |-> <<"R", "e", "t", "r", "o">>, url |-> "https://cdn/Retro_Coleccion_1_ab12cd.jpg"],
      [filename |-> "Retro_Coleccion_1_xy99qw", name |-> <<"R", "e", "t", "r", "o">>, url |-> "https://cdn/Retro_Coleccion_1_xy99qw.jpg"],
      [filename |-> "Mundial_Coleccion_1_ab12cd", name |-> <<"M", "u", "n", "d", "i", "a", "l">>, url |-> "https://cdn/Mundial_Coleccion_1_ab12cd.jpg"] }

JerseyBucket ==
    { [Key |-> <<"a", "l", "l", "-", "j", "e", "r", "s", "e", "y", "s", "/", "R", "e", " ",
              "(", "1", ")", ".", "p", "n", "g">>],
      [Key |-> <<"a", "l", "l", "-", "j", "e", "r", "s", "e", "y", "s", "/", "R", "e", " ",
              "(", "2", ")", ".", "p", "n", "g">>],
      [Key |-> <<"a", "l", "l", "-", "j", "e", "r", "s", "e", "y", "s", "/", "V", "a", " ",
              "(", "1", ")", ".", "p", "n", "g">>],
      [Key |-> <<"a", "l", "l", "-", "j", "e", "r", "s", "e", "y", "s", "/", "R", "e", ".",
              "p", "n", "g">>] }

CapsuleBucket ==
    { [Key |-> <<"p", "o", "r", "t", "a", "d", "a", "-", "c", "a", "p", "s", "u", "l", "e",
              "/", "R", "e", "t", "r", "o", " ", "C", "o", "l", "e", "c", "c", "i",
              "<o'>", "n", " ", "(", "1", ")", ".", "p", "n", "g">>],
      [Key |-> <<"p", "o", "r", "t", "a", "d", "a", "-", "c", "a", "p", "s", "u", "l", "e",
              "/", "R", "e", "t", "r", "o", " ", "C", "o", "l", "e", "c", "c", "i",
              "<o'>", "n", " ", "(", "2", ")", ".", "p", "n", "g">>],
      [Key |-> <<"p", "o", "r", "t", "a", "d", "a", "-", "c", "a", "p", "s", "u", "l", "e",
              "/", "M", "u", "n", "d", "i", "a", "l", " ", "c", "o", "l", "e", "c", "c",
              "i", "<o'>", "n", " ", "(", "1", ")", ".", "p", "n", "g">>],
      [Key |-> <<"p", "o", "r", "t", "a", "d", "a", "-", "c", "a", "p", "s", "u", "l", "e",
              "/">>] }

CollectionsBucket ==
    { [Key |-> <<"p", "o", "r", "t", "a", "d", "a", "-", "c", "o", "l", "l", "e", "c", "t",
              "i", "o", "n", "s", "/", "L", "i", "g", "a", " ", "C", "o", "l", "l", "e",
              "c", "t", "i", "o", "n", " ", "Z", "X", "Z", "X", " ", "(", "1", ")", ".",
              "p", "n", "g">>],
      [Key |-> <<"p", "o", "r", "t", "a", "d", "a", "-", "c", "o", "l", "l", "e", "c", "t",
              "i", "o", "n", "s", "/", "C", "o", "p", "a", " ", "Z", "X", "Z", "X", " ",
              "(", "1", ")", ".", "p", "n", "g">>],
      [Key |-> <<"p", "o", "r", "t", "a", "d", "a", "-", "c", "o", "l", "l", "e", "c", "t",
              "i", "o", "n", "s", "/", "n", "o", "t", "e", "s", ".", "t", "x", "t">>] }

Assets(p) ==
    CASE p = "jerseys.py" -> JerseyAccount
      [] p = "generate_jerseys_csv.py" -> JerseyBucket
      [] p = "coleccion.py" -> CoverAccount
      [] p = "capsula.py" -> CapsuleCovers
      [] p = "generate_capsule_csv.py" -> CapsuleBucket
      [] p = "generate_collections_csv.py" -> CollectionsBucket

\* delete.txt as load_delete_list reads it.
DeleteFiles == {{}, {<<"V", "a", "_", "1", "_", "a", "b", "1", "2", "c", "d">>}}

\* Rows of products.csv that a person has filled in.
EditedProduct(nm) ==
    [id |-> <<"uuid4", 0, nm>>, name |-> nm, price |-> "100", description |-> "hand",
     images |-> json_dumps(<<"https://cdn/old.jpg">>), collection_ids |-> "1",
     capsule_ids |-> ""]

ProductRowPool == {EditedProduct("Re"), EditedProduct("Va")}

\* Rows of collections.csv and capsule.csv that a person has written or
\* edited: the id cell holds a number or not, two rows may share a Name.
EditedCover(id, nm, url) ==
    [id |-> id, Name |-> nm, slug |-> "hand", description |-> "hand", cover |-> url]

CoverRows(nm1, url1, nm2, url2) ==
    {EditedCover(<<"1">>, nm1, url1), EditedCover(<<"2">>, nm1, url1),
     EditedCover(<<"x">>, nm2, url2), EditedCover(<<"2">>, nm2, url2)}

RowPool(p) ==
    CASE p = "jerseys.py" -> ProductRowPool
      [] p = "generate_jerseys_csv.py" -> ProductRowPool
      [] p = "coleccion.py" ->
            CoverRows("Liga", "https://cdn/Liga_ZXZX_1_ab12cd.jpg",
                      "Copa", "https://cdn/Copa_zxzx_ab12cd.jpg")
      [] p = "capsula.py" ->
            CoverRows("Retro", "https://cdn/Retro_Coleccion_1_ab12cd.jpg",
                      "Mundial", "https://cdn/Mundial_Coleccion_1_ab12cd.jpg")
      [] p = "generate_capsule_csv.py" ->
            CoverRows("Retro", S3Url(<<"p", "o", "r", "t", "a", "d", "a", "-", "c", "a",
                                      "p", "s", "u", "l", "e", "/", "R", "e", "t", "r",
                                      "o", " ", "C", "o", "l", "e", "c", "c", "i",
                                      "<o'>", "n", " ", "(", "1", ")", ".", "p", "n", "g">>),
                      "Mundial", S3Url(<<"p", "o", "r", "t", "a", "d", "a", "-", "c", "a",
                                      "p", "s", "u", "l", "e", "/", "M", "u", "n", "d",
                                      "i", "a", "l", " ", "c", "o", "l", "e", "c", "c",
                                      "i", "<o'>", "n", " ", "(", "1", ")", ".", "p",
                                      "n", "g">>))
      [] p = "generate_collections_csv.py" ->
            CoverRows("Liga", S3Url(<<"p", "o", "r", "t", "a", "d", "a", "-", "c", "o",
                                      "l", "l", "e", "c", "t", "i", "o", "n", "s", "/",
                                      "L", "i", "g", "a", " ", "C", "o", "l", "l", "e",
                                      "c", "t", "i", "o", "n", " ", "Z", "X", "Z", "X",
                                      " ", "(", "1", ")", ".", "p", "n", "g">>),
                      "Copa", S3Url(<<"p", "o", "r", "t", "a", "d", "a", "-", "c", "o",
                                      "l", "l", "e", "c", "t", "i", "o", "n", "s", "/",
                                      "C", "o", "p", "a", " ", "Z", "X", "Z", "X", " ",
                                      "(", "1", ")", ".", "p", "n", "g">>))

\* The most assets of a page (max_results=500 of cloudinary.api.resources, the
\* 1000 keys of a list_objects_v2 response), scaled to the listings here.
MaxPageSize == 2

\* cloudinary.api.resources(type="upload", max_results=..., next_cursor=...) of
\* an account holding the assets all: the page after the cursor, and the
\* cursor of the next page while assets remain. The cursor is the number of
\* assets before the page; 0 stands for None.
resources(all, max_results, next_cursor) ==
    LET last == IF next_cursor + max_results < Len(all) THEN next_cursor + max_results
                ELSE Len(all)
    IN  [resources |-> SubSeq(all, next_cursor + 1, last),
         next_cursor |-> IF last < Len(all) THEN last ELSE 0]

\* A loop that returns the pages it has when a call raises.
RECURSIVE FetchResources_KeepPages(_, _, _, _, _, _)
FetchResources_KeepPages(all, max_results, fail, calls, all_images, next_cursor) ==
    IF calls + 1 = fail THEN [all_images |-> all_images, raised |-> TRUE]
    ELSE LET result == resources(all, max_results, next_cursor)
             got == all_images \o result.resources
         IN  IF result.next_cursor = 0 THEN [all_images |-> got, raised |-> FALSE]
             ELSE FetchResources_KeepPages(all, max_results, fail, calls + 1, got,
                                           result.next_cursor)

\* The "while True" loop of get_jersey_images_only and get_collection_covers
\* inside their try: one call per page until a result has no next_cursor; the
\* fail-th call raises (none when fail = 0), and "except Exception" returns [].
RECURSIVE FetchResources(_, _, _, _, _, _)
FetchResources(all, max_results, fail, calls, all_images, next_cursor) ==
    IF calls + 1 = fail THEN [all_images |-> <<>>, raised |-> TRUE]
    ELSE LET result == resources(all, max_results, next_cursor)
             got == all_images \o result.resources
         IN  IF result.next_cursor = 0 THEN [all_images |-> got, raised |-> FALSE]
             ELSE FetchResources(all, max_results, fail, calls + 1, got, result.next_cursor)

\* s3_client.list_objects_v2(Bucket=..., Prefix=..., ContinuationToken=...) of
\* a prefix holding the objects all: at most max_keys objects after the token,
\* IsTruncated and NextContinuationToken while objects remain. No 'Contents'
\* key is an empty Contents; the token is the number of objects before the page.
list_objects_v2(all, max_keys, continuation_token) ==
    LET last == IF continuation_token + max_keys < Len(all) THEN continuation_token + max_keys
                ELSE Len(all)
    IN  [Contents |-> SubSeq(all, continuation_token + 1, last),
         IsTruncated |-> last < Len(all),
         NextContinuationToken |-> last]

\* The "while True" loop of generate_jerseys_csv: one call per page while the
\* response is truncated; the fail-th call raises.
RECURSIVE FetchObjects(_, _, _, _, _, _)
FetchObjects(all, max_keys, fail, calls, all_objects, continuation_token) ==
    IF calls + 1 = fail THEN [all_objects |-> <<>>, raised |-> TRUE]
    ELSE LET response == list_objects_v2(all, max_keys, continuation_token)
             got == all_objects \o response.Contents
         IN  IF response.IsTruncated
                 THEN FetchObjects(all, max_keys, fail, calls + 1, got,
                                   response.NextContinuationToken)
                 ELSE [all_objects |-> got, raised |-> FALSE]

\* The one call of generate_capsule_csv and generate_collections_csv:
\* response['Contents'] of the first response; the call raises when fail = 1.
FirstResponse(all, max_keys, fail) ==
    IF fail = 1 THEN [all_objects |-> <<>>, raised |-> TRUE]
    ELSE [all_objects |-> list_objects_v2(all, max_keys, 0).Contents, raised |-> FALSE]

PipeIdle ==
    /\ program = "none" /\ listing = <<>> /\ delete_txt = {} /\ csv = NoFile /\ runs = 0
    /\ new_entities = <<>> /\ read_raised = FALSE /\ unchanged = FALSE /\ origin = "absent"
    /\ page_size = 0 /\ fetched = <<>> /\ fetch_raised = FALSE

\* Before the first run: any listing, which the service answers in one page,
\* and the table file absent, present without a byte, or holding the header
\* line and some rows.
PipeInit ==
    /\ program \in Programs
    /\ listing \in DistinctSeqs(Assets(program), MaxListing)
    /\ delete_txt \in IF program = "jerseys.py" THEN DeleteFiles ELSE {{}}
    /\ \/ csv = NoFile /\ origin = "absent"
       \/ csv = EmptyFile /\ origin = "empty"
       \/ \E rows \in SeqsUpTo(RowPool(program), MaxRows) :
              csv = Table(rows) /\ origin = "table"
    /\ runs = 0 /\ new_entities = <<>> /\ read_raised = FALSE /\ unchanged = FALSE
    /\ page_size = MaxListing /\ fetched = <<>> /\ fetch_raised = FALSE

\* Before the first run, with a service that answers in pages: any listing,
\* any page size, and the table file absent, present without a byte, or
\* holding the header line and at most one row.
ListInit ==
    /\ program \in Programs
    /\ listing \in DistinctSeqs(Assets(program), MaxListing)
    /\ delete_txt \in IF program = "jerseys.py" THEN DeleteFiles ELSE {{}}
    /\ \/ csv = NoFile /\ origin = "absent"
       \/ csv = EmptyFile /\ origin = "empty"
       \/ \E rows \in SeqsUpTo(RowPool(program), 1) :
              csv = Table(rows) /\ origin = "table"
    /\ runs = 0 /\ new_entities = <<>> /\ read_raised = FALSE /\ unchanged = FALSE
    /\ page_size \in 1..MaxPageSize /\ fetched = <<>> /\ fetch_raised = FALSE

\* What every run leaves alone, and what it records. The runs take the set
\* outages of the numbers of the listing call that may raise in the run (0:
\* no call raises).
RunDone(fetch, result) ==
    /\ csv' = result.file
    /\ new_entities' = result.new
    /\ read_raised' = result.raised
    /\ fetched' = fetch.all
    /\ fetch_raised' = fetch.raised
    /\ runs' = runs + 1
    /\ unchanged' = TRUE
    /\ UNCHANGED <<program, listing, delete_txt, origin, page_size>>

\* What a run leaves when a call of the listing raised inside the try of the
\* whole function: the except clause returns False, the file is not opened
\* for writing.
Aborted(f, read) == [file |-> f, new |-> <<>>, raised |-> read]

\* jerseys.py main(): filter, group, load, save. r-th run on file f.
jerseys_main(f, all_images, dl, r) ==
    LET jersey_images == get_jersey_images_only(all_images)
        prods == group_images_by_product(jersey_images, dl, r)
        existing_products == load_existing_products(f)
        new_products == NewProducts(prods, existing_products)
    IN  IF jersey_images = <<>>
            THEN [file |-> f, new |-> <<>>, raised |-> FALSE]
        ELSE IF new_products = <<>>
            THEN [file |-> f, new |-> <<>>, raised |-> LoadProductsRaises(f)]
        ELSE [file |-> AppendRows(f, ProductRows(new_products)),
              new |-> ProductRows(new_products),
              raised |-> LoadProductsRaises(f)]

RunJerseys(outages) ==
    /\ program = "jerseys.py" /\ runs < MaxRuns
    /\ \E fail \in outages :
           LET got == FetchResources(listing, page_size, fail, 0, <<>>, 0)
           IN  RunDone([all |-> got.all_images, raised |-> got.raised],
                       jerseys_main(csv, got.all_images, delete_txt, runs))

\* generate_jerseys_csv.py generate_jerseys_csv(): load, list, group, merge,
\* rewrite. r-th run on file f. A row that cannot be written back ends the
\* writing after the header line.
generate_jerseys_csv(f, all_objects, r) ==
    LET loaded == LoadJerseysCsv(f)
        new_entries ==
            JerseyEntries(group_jersey_images(all_objects), loaded.existing_names, r, 0)
    IN  IF all_objects = <<>> \/ (new_entries = <<>> /\ loaded.existing_data = <<>>)
            THEN [file |-> f, new |-> <<>>, raised |-> LoadProductsRaises(f)]
        ELSE IF loaded.unwritable
            THEN [file |-> RewriteRows(<<>>), new |-> <<>>, raised |-> TRUE]
            ELSE [file |-> RewriteRows(loaded.existing_data \o new_entries),
                  new |-> new_entries,
                  raised |-> LoadProductsRaises(f)]

RunGenerateJerseys(outages) ==
    /\ program = "generate_jerseys_csv.py" /\ runs < MaxRuns
    /\ \E fail \in outages :
           LET got == FetchObjects(listing, page_size, fail, 0, <<>>, 0)
           IN  RunDone([all |-> got.all_objects, raised |-> got.raised],
                       IF got.raised THEN Aborted(csv, LoadProductsRaises(csv))
                       ELSE generate_jerseys_csv(csv, got.all_objects, runs))

\* coleccion.py main(): the covers of the account, then save_collections_to_csv.
RunColeccion(outages) ==
    /\ program = "coleccion.py" /\ runs < MaxRuns
    /\ \E fail \in outages :
           LET got == FetchResources(listing, page_size, fail, 0, <<>>, 0)
           IN  RunDone([all |-> got.all_images, raised |-> got.raised],
                       save_collections_to_csv(csv, get_collection_covers(got.all_images)))

\* other/capsula.py main() from the covers get_capsule_covers returned:
\* save_capsules_to_csv, the same statements as save_collections_to_csv.
RunCapsula(outages) ==
    /\ program = "capsula.py" /\ runs < MaxRuns
    /\ RunDone([all |-> listing, raised |-> FALSE], save_collections_to_csv(csv, listing))

\* generate_capsule_csv.py generate_capsule_csv().
RunGenerateCapsule(outages) ==
    /\ program = "generate_capsule_csv.py" /\ runs < MaxRuns
    /\ \E fail \in outages :
           LET got == FirstResponse(listing, page_size, fail)
           IN  RunDone([all |-> got.all_objects, raised |-> got.raised],
                       IF got.raised THEN Aborted(csv, load_existing_csv(csv).raised)
                       ELSE generate_cover_csv(csv, got.all_objects, "capsule"))

\* generate_collections_csv.py generate_collections_csv().
RunGenerateCollections(outages) ==
    /\ program = "generate_collections_csv.py" /\ runs < MaxRuns
    /\ \E fail \in outages :
           LET got == FirstResponse(listing, page_size, fail)
           IN  RunDone([all |-> got.all_objects, raised |-> got.raised],
                       IF got.raised THEN Aborted(csv, load_existing_csv(csv).raised)
                       ELSE generate_cover_csv(csv, got.all_objects, "collections"))

\* Between two runs somebody uploads one more asset.
Upload ==
    /\ program \in Programs /\ Len(listing) < MaxListing
    /\ \E a \in Assets(program) :
           /\ \A i \in 1..Len(listing) : listing[i] # a
           /\ listing' = Append(listing, a)
    /\ unchanged' = FALSE
    /\ UNCHANGED <<program, delete_txt, csv, runs, new_entities, read_raised, origin,
                   page_size, fetched, fetch_raised>>

-----------------------------------------------------------------------------
(* SpecCover: one cover filename taken to its name and then to its slug, as *)
(* coleccion.py does with the filename of a Cloudinary cover and as         *)
(* generate_capsule_csv.py and generate_collections_csv.py do with the      *)
(* filename of an S3 cover object.                                          *)

\* The most segments (words) of a cover filename.
MaxCoverWords == 4

\* Underscore-separated segments of Cloudinary cover filenames.
CoverSegments ==
    { <<"P", "r", "e", "m", "i", "e", "r">>,
      <<"L", "e", "a", "g", "u", "e">>,
      <<"Z", "X", "Z", "X">>,
      <<"z", "x", "z", "x">>,
      <<"(", "1", ")", ".", "p", "n", "g">>,
      <<"a", "b", "1", "2", "c", "d">>,
      <<"S", "t", ".">>,
      <<"M", "<e'>", "x", "i", "c", "o">> }

\* Blank-separated words of S3 cover filenames, before the extension.
CoverWords ==
    { <<"R", "e", "t", "r", "o">>,
      <<"C", "o", "l", "e", "c", "c", "i", "<o'>", "n">>,
      <<"c", "o", "l", "e", "c", "c", "i", "<o'>", "n">>,
      <<"C", "O", "L", "E", "C", "C", "I", "<O'>", "N">>,
      <<"(", "1", ")">>,
      <<"A", ".", "C", ".">>,
      <<"Z", "X", "Z", "X">>,
      <<"C", "o", "l", "l", "e", "c", "t", "i", "o", "n">>,
      <<>> }

CoverScripts == {"coleccion.py", "generate_capsule_csv.py", "generate_collections_csv.py"}

CoverFileNames(s) ==
    IF s = "coleccion.py"
        THEN {join(parts, "_") : parts \in SeqsUpTo(CoverSegments, MaxCoverWords) \ {<<>>}}
        ELSE {join(ws, " ") \o <<".", "p", "n", "g">> :
                  ws \in SeqsUpTo(CoverWords, MaxCoverWords) \ {<<>>}}

CoverIdle ==
    cover_script = "none" /\ cover_filename = <<>> /\ cover_name = NULL /\ cover_slug = NULL

CoverInit ==
    /\ cover_script \in CoverScripts
    /\ cover_filename \in CoverFileNames(cover_script)
    /\ cover_name = NULL /\ cover_slug = NULL

\* collection_name = extract_collection_name(filename); the clean_name of the
\* S3 generators.
NameCover ==
    /\ cover_script \in CoverScripts /\ cover_name = NULL
    /\ cover_name' = CASE cover_script = "coleccion.py" ->
                              extract_collection_name(cover_filename)
                       [] cover_script = "generate_capsule_csv.py" ->
                              CapsuleCleanName(cover_filename)
                       [] cover_script = "generate_collections_csv.py" ->
                              CollectionsCleanName(cover_filename)
    /\ UNCHANGED <<cover_script, cover_filename, cover_slug>>

\* slug = create_slug(name); slug = normalize_string(clean_name)... + '-coleccion'
SlugCover ==
    /\ cover_script \in CoverScripts /\ cover_name # NULL /\ cover_slug = NULL
    /\ cover_slug' = IF cover_script = "coleccion.py" THEN create_slug(cover_name)
                     ELSE CoverSlug(cover_name)
    /\ UNCHANGED <<cover_script, cover_filename, cover_name>>

-----------------------------------------------------------------------------
(* upload.py: one call of SupabaseUploader.upload_single_table, statement   *)
(* by statement. A value of a CSV row is text; a price of the remote        *)
(* products table is a float, kept as the record [float |-> hundredths].    *)

\* The text of s without blanks around it and without its sign.
FloatBody(s) ==
    LET t == strip(s)
    IN  IF t # <<>> /\ Head(t) \in {"+", "-"} THEN Tail(t) ELSE t

\* float(s) does not raise: digits with at most one point, a sign before
\* them, blanks around them (texts of digits, points, signs, blanks, letters
\* and punctuation; no exponent, no underscore, no inf or nan).
IsFloat(s) ==
    LET b == FloatBody(s)
    IN  /\ \A i \in 1..Len(b) : b[i] \in Digits \cup {"."}
        /\ Cardinality({i \in 1..Len(b) : b[i] = "."}) <= 1
        /\ \E i \in 1..Len(b) : b[i] \in Digits

\* float(s), in hundredths (texts of at most two decimals; the sign of a zero
\* is not kept).
float(s) ==
    LET t == strip(s)
        b == FloatBody(s)
        d == find(b, <<".">>)
        whole == IF d = -1 THEN b ELSE Upto(b, d)
        frac == IF d = -1 THEN <<>> ELSE From(b, d + 1)
        hundredths == int(whole) * 100
                        + (IF Len(frac) = 1 THEN 10 * int(frac) ELSE int(frac))
    IN  [float |-> IF Head(t) = "-" THEN 0 - hundredths ELSE hundredths]

\* str(x) of a float x, as csv.DictWriter writes it.
FloatText(x) ==
    LET n == IF x.float < 0 THEN 0 - x.float ELSE x.float
        frac == n % 100
    IN  (IF x.float < 0 THEN <<"-">> ELSE <<>>)
            \o str(n \div 100) \o <<".">>
            \o (IF frac % 10 = 0 THEN str(frac \div 10)
                ELSE IF frac < 10 THEN <<"0">> \o str(frac) ELSE str(frac))

\* read_csv_file: the rows of the file, a blank value made None; no rows when
\* the file is missing or the reading raises.
CleanedRow(row) == [k \in DOMAIN row |-> IF strip(row[k]) = <<>> THEN NULL ELSE row[k]]

read_csv_file(f, raises) ==
    IF ~f.exists \/ raises THEN <<>>
    ELSE [i \in 1..Len(f.rows) |-> CleanedRow(f.rows[i])]

\* validate_products_data: no product has a price that is missing, '0' or '0.0'.
validate_products_data(prods) ==
    \A i \in 1..Len(prods) :
        LET price == IF prods[i].price # NULL /\ prods[i].price # <<>>
                         THEN strip(prods[i].price) ELSE <<>>
        IN  ~(price = <<>> \/ price = <<"0">> \/ price = <<"0", ".", "0">>)

\* process_products_data, the price: float(price), or 0.0 when float raises; a
\* price that is None or '' stays.
ProcessedProduct(product) ==
    IF product.price # NULL /\ product.price # <<>>
        THEN [product EXCEPT !.price = IF IsFloat(@) THEN float(@) ELSE [float |-> 0]]
        ELSE product

process_products_data(prods) == [i \in 1..Len(prods) |-> ProcessedProduct(prods[i])]

\* The row csv.DictWriter writes of a row of the remote table: the text of
\* each value (the price column of the remote products table holds floats).
WrittenRow(row) ==
    [k \in DOMAIN row |-> IF k = "price" THEN FloatText(row[k]) ELSE row[k]]

\* backup_table that returns True whatever happens.
backup_table_AlwaysTrue(tbl, rows, outcome, written) ==
    [returned |-> TRUE,
     files |-> IF outcome = "select raises" \/ rows = <<>> THEN {}
               ELSE {[table |-> tbl, rows |-> [i \in 1..written |-> WrittenRow(rows[i])]]}]

\* backup_table: what it returns and the file it leaves. outcome names the
\* statement that raises, if one does; a writing that raises leaves the rows
\* written before it.
backup_table(tbl, rows, outcome, written) ==
    IF outcome = "select raises" THEN [returned |-> FALSE, files |-> {}]
    ELSE IF rows = <<>> THEN [returned |-> TRUE, files |-> {}]
    ELSE IF outcome = "write raises"
        THEN [returned |-> FALSE,
              files |-> {[table |-> tbl,
                          rows |-> [i \in 1..written |-> WrittenRow(rows[i])]]}]
    ELSE [returned |-> TRUE,
          files |-> {[table |-> tbl, rows |-> [i \in 1..Len(rows) |-> WrittenRow(rows[i])]]}]

\* The rows upload_to_table inserts.
InsertedRows(tbl, rows) == IF tbl = "products" THEN process_products_data(rows) ELSE rows

\* The most rows of the CSV file and of the remote table.
MaxUploadRows == 2

\* Prices of the price column of products.csv.
Prices ==
    { <<>>, <<" ">>, <<"0">>, <<"0", ".", "0">>, <<" ", "0", " ">>,
      <<"0", ".", "0", "0">>, <<"0", "0">>, <<"-", "0", ".", "0">>,
      <<"1", "0", "0">>, <<"1", "2", ".", "5">>, <<"-", "5">>,
      <<"a", "b", "c">>, <<"$", "1", "0">>, <<"1", ",", "5">> }

UploadTables == {"products", "collections"}

\* Rows of the CSV file given for a table.
CsvRows(tbl) ==
    IF tbl = "products"
        THEN {[id |-> <<"p", "1">>, price |-> p] : p \in Prices}
        ELSE {[id |-> <<"1">>, Name |-> <<"L", "i", "g", "a">>],
              [id |-> <<"2">>, Name |-> <<>>]}

\* Rows the remote table holds before the call.
RemoteRows(tbl) ==
    IF tbl = "products"
        THEN {[id |-> <<"p", "8">>, price |-> [float |-> 1250]],
              [id |-> <<"p", "9">>, price |-> [float |-> 90000]]}
        ELSE {[id |-> <<"8">>, Name |-> <<"C", "o", "p", "a">>],
              [id |-> <<"9">>, Name |-> <<"R", "e", "t", "r", "o">>]}

\* What the operator types at the prompt.
Answers ==
    { <<"y", "e", "s">>, <<"y">>, <<" ", "Y", "E", "S", " ">>, <<"n", "o">>, <<>>,
      <<"y", "e", "s", "!">> }

UploadIdle ==
    /\ table_name = "none" /\ csv_file = [exists |-> FALSE, rows |-> <<>>]
    /\ supabase = FALSE /\ remote_table = <<>> /\ backups = {} /\ data = <<>>
    /\ log = <<>> /\ step = "idle" /\ returned = "none"

UploadInit ==
    /\ table_name \in UploadTables
    /\ csv_file \in {[exists |-> FALSE, rows |-> <<>>]}
                      \cup {[exists |-> TRUE, rows |-> r] :
                                r \in SeqsUpTo(CsvRows(table_name), MaxUploadRows)}
    /\ supabase \in BOOLEAN
    /\ remote_table \in SeqsUpTo(RemoteRows(table_name), MaxUploadRows)
    /\ backups = {} /\ data = <<>> /\ log = <<>> /\ step = "start" /\ returned = "none"

Called(call, result) == log' = Append(log, [call |-> call, returned |-> result])

Return(value) == step' = "returned" /\ returned' = value

\* if not self.supabase: return False
CheckClient ==
    /\ step = "start"
    /\ IF supabase THEN step' = "backup" /\ returned' = returned ELSE Return("False")
    /\ UNCHANGED <<table_name, csv_file, supabase, remote_table, backups, data, log>>

\* Step 1: if not self.backup_table(table_name): return False
BackupTable ==
    /\ step = "backup"
    /\ \E outcome \in {"returns", "select raises", "write raises"},
          written \in 0..Len(remote_table) :
           LET b == backup_table(table_name, remote_table, outcome, written)
           IN  /\ outcome = "write raises" => remote_table # <<>> /\ written < Len(remote_table)
               /\ outcome # "write raises" => written = 0
               /\ backups' = backups \cup b.files
               /\ Called("backup_table", IF b.returned THEN "True" ELSE "False")
               /\ IF b.returned THEN step' = "read" /\ returned' = returned
                  ELSE Return("False")
    /\ UNCHANGED <<table_name, csv_file, supabase, remote_table, data>>

\* Step 2: data = self.read_csv_file(csv_file); if not data: return False
ReadCsv ==
    /\ step = "read"
    /\ \E raises \in BOOLEAN :
           /\ raises => csv_file.exists
           /\ data' = read_csv_file(csv_file, raises)
    /\ Called("read_csv_file", IF data' = <<>> THEN "[]" ELSE "rows")
    /\ IF data' = <<>> THEN Return("False")
       ELSE step' = (IF table_name = "products" THEN "validate" ELSE "confirm")
            /\ returned' = returned
    /\ UNCHANGED <<table_name, csv_file, supabase, remote_table, backups>>

\* Step 2.5: if not self.validate_products_data(data): return False
ValidateProducts ==
    /\ step = "validate"
    /\ Called("validate_products_data", IF validate_products_data(data) THEN "True" ELSE "False")
    /\ IF validate_products_data(data) THEN step' = "confirm" /\ returned' = returned
       ELSE Return("False")
    /\ UNCHANGED <<table_name, csv_file, supabase, remote_table, backups, data>>

\* Step 3: confirm = input(...).lower().strip(); if confirm not in ['yes', 'y']: return False
Confirm ==
    /\ step = "confirm"
    /\ \E answer \in Answers :
           LET confirm == strip(lower(answer))
           IN  /\ Called("input", ToStr(confirm))
               /\ IF confirm \in {<<"y", "e", "s">>, <<"y">>}
                      THEN step' = "truncate" /\ returned' = returned
                      ELSE Return("False")
    /\ UNCHANGED <<table_name, csv_file, supabase, remote_table, backups, data>>

\* Step 4: if not self.truncate_table(table_name): return False. A delete that
\* raises has deleted every row or none.
TruncateTable ==
    /\ step = "truncate"
    /\ \E raises \in BOOLEAN :
           /\ remote_table' \in (IF raises THEN {remote_table, <<>>} ELSE {<<>>})
           /\ Called("truncate_table", IF raises THEN "False" ELSE "True")
           /\ IF raises THEN Return("False") ELSE step' = "upload" /\ returned' = returned
    /\ UNCHANGED <<table_name, csv_file, supabase, backups, data>>

\* if not self.upload_to_table(table_name, data): return False; return True.
\* The rows go in one batch (batch_size is 100); an insert that raises has
\* inserted nothing.
UploadToTable ==
    /\ step = "upload"
    /\ \E raises \in BOOLEAN :
           /\ remote_table' = (IF raises THEN remote_table
                               ELSE remote_table \o InsertedRows(table_name, data))
           /\ Called("upload_to_table", IF raises THEN "False" ELSE "True")
           /\ Return(IF raises THEN "False" ELSE "True")
    /\ UNCHANGED <<table_name, csv_file, supabase, backups, data>>

-----------------------------------------------------------------------------
(* other/duplicate_cleaner.py: find_duplicates and delete_duplicates.       *)

\* [a-zA-Z]{6}
IsLetters6(s) == Len(s) = 6 /\ \A i \in 1..6 : s[i] \in Lowers \cup Uppers

\* extract_base_identifier: group 1 of r'^(.+)_[a-zA-Z]{6}$' on the filename
\* without its extension, or that whole name.
extract_base_identifier(fn) ==
    LET name_without_ext == splitext(fn)
        n == Len(name_without_ext)
    IN  IF n >= 8 /\ name_without_ext[n - 6] = "_" /\ IsLetters6(From(name_without_ext, n - 6))
            THEN Upto(name_without_ext, n - 7)
            ELSE name_without_ext

\* The loop of find_duplicates: grouped_images[base_id].append(image_info).
RECURSIVE GroupByBase(_, _)
GroupByBase(grouped_images, imgs) ==
    IF imgs = <<>> THEN grouped_images
    ELSE LET image == Head(imgs)
             fn == Basename(image.public_id)
             base_id == ToStr(extract_base_identifier(fn))
             image_info == [public_id |-> image.public_id, created_at |-> image.created_at,
                            filename |-> fn]
         IN  GroupByBase(AddEntry(grouped_images, base_id, image_info), Tail(imgs))

\* find_duplicates: the groups of more than one image, in the order of their
\* first images.
find_duplicates(imgs) ==
    SelectSeq(GroupByBase(<<>>, imgs), LAMBDA g : Len(g.images) > 1)

\* The characters of a created_at, in the order of their code points.
CodeOrder == <<"-", "0", "1", "2", "3", "4", "5", "6", "7", "8", "9">>

CodePoint(c) == CHOOSE i \in 1..Len(CodeOrder) : CodeOrder[i] = c

\* a < b of two str
RECURSIVE TextLess(_, _)
TextLess(a, b) ==
    IF b = <<>> THEN FALSE
    ELSE IF a = <<>> THEN TRUE
    ELSE IF Head(a) = Head(b) THEN TextLess(Tail(a), Tail(b))
    ELSE CodePoint(Head(a)) < CodePoint(Head(b))

\* sorted(images, key=lambda x: x.get('created_at', '')): stable, ascending.
RECURSIVE InsertByCreated(_, _)
InsertByCreated(sorted, x) ==
    IF sorted = <<>> THEN <<x>>
    ELSE IF TextLess(x.created_at, Head(sorted).created_at) THEN <<x>> \o sorted
    ELSE <<Head(sorted)>> \o InsertByCreated(Tail(sorted), x)

RECURSIVE SortByCreated(_)
SortByCreated(imgs) ==
    IF imgs = <<>> THEN <<>>
    ELSE InsertByCreated(SortByCreated(Upto(imgs, Len(imgs) - 1)), imgs[Len(imgs)])

\* A body of the loop that keeps the first image of the sorted group.
DeleteGroup_KeepOldest(imgs, dry, failures) ==
    LET to_delete == Tail(SortByCreated(imgs))
        ids == [i \in 1..Len(to_delete) |-> to_delete[i].public_id]
    IN  IF dry THEN [calls |-> <<>>, errors |-> {}, deleted |-> <<>>]
        ELSE [calls |-> ids,
              errors |-> {ids[i] : i \in 1..Len(ids)} \cap failures,
              deleted |-> SelectSeq(ids, LAMBDA id : id \notin failures)]

\* One body of "for base_id, images in duplicates.items()": the public_ids
\* given to delete_resources, the ones whose deletion raised, the ones deleted.
DeleteGroup(imgs, dry, failures) ==
    LET sorted == SortByCreated(imgs)
        to_delete == Upto(sorted, Len(sorted) - 1)
        ids == [i \in 1..Len(to_delete) |-> to_delete[i].public_id]
    IN  IF dry THEN [calls |-> <<>>, errors |-> {}, deleted |-> <<>>]
        ELSE [calls |-> ids,
              errors |-> {ids[i] : i \in 1..Len(ids)} \cap failures,
              deleted |-> SelectSeq(ids, LAMBDA id : id \notin failures)]

\* delete_duplicates(duplicates, dry_run), the deletions of failures raising.
RECURSIVE delete_duplicates(_, _, _)
delete_duplicates(dups, dry, failures) ==
    IF dups = <<>> THEN [calls |-> <<>>, errors |-> {}, deleted |-> <<>>]
    ELSE LET first == DeleteGroup(Head(dups).images, dry, failures)
             rest == delete_duplicates(Tail(dups), dry, failures)
         IN  [calls |-> first.calls \o rest.calls,
              errors |-> first.errors \cup rest.errors,
              deleted |-> first.deleted \o rest.deleted]

\* The most images of the jerseys folder.
MaxCleanerImages == 3

\* An image of the listing: its public_id and its created_at ('' when the
\* listing gives none).
CleanerImage(public_id, created_at) == [public_id |-> public_id, created_at |-> created_at]

\* Images of the jerseys folder: uploads of image 5 of one jersey under codes
\* of letters and a code with a digit, two of them of one date; an image
\* without date; an image of another jersey, in the folder.
CleanerImages ==
    { CleanerImage(<<"V", "a", "_", "5", "_", "c", "r", "x", "p", "l", "e">>,
                   <<"2", "0", "2", "3", "-", "0", "1">>),
      CleanerImage(<<"V", "a", "_", "5", "_", "r", "v", "f", "y", "p", "9">>,
                   <<"2", "0", "2", "4", "-", "0", "5">>),
      CleanerImage(<<"V", "a", "_", "5", "_", "a", "b", "c", "d", "e", "f">>,
                   <<"2", "0", "2", "2", "-", "1", "1">>),
      CleanerImage(<<"V", "a", "_", "5", "_", "q", "w", "e", "r", "t", "y">>,
                   <<"2", "0", "2", "3", "-", "0", "1">>),
      CleanerImage(<<"V", "a", "_", "5", "_", "u", "v", "w", "x", "y", "z">>, <<>>),
      CleanerImage(<<"t", "m", "x", "/", "R", "e", "_", "c", "r", "x", "p", "l", "e">>,
                   <<"2", "0", "2", "3", "-", "0", "1">>),
      CleanerImage(<<"R", "e", "_", "b", "z", "s", "b", "b", "n">>,
                   <<"2", "0", "2", "1", "-", "1", "2">>) }

CleanerIdle ==
    /\ listed = <<>> /\ cloudinary = {} /\ duplicates = <<>> /\ dry_run = TRUE
    /\ delete_calls = <<>> /\ delete_errors = {} /\ total_deleted = 0 /\ phase = "idle"

CleanerInit ==
    /\ listed \in DistinctSeqs(CleanerImages, MaxCleanerImages)
    /\ cloudinary = {listed[i].public_id : i \in 1..Len(listed)}
    /\ duplicates = <<>> /\ dry_run = TRUE
    /\ delete_calls = <<>> /\ delete_errors = {} /\ total_deleted = 0 /\ phase = "listed"

\* duplicates = find_duplicates(images)
FindDuplicates ==
    /\ phase = "listed"
    /\ duplicates' = find_duplicates(listed)
    /\ phase' = "found"
    /\ UNCHANGED <<listed, cloudinary, dry_run, delete_calls, delete_errors, total_deleted>>

\* delete_duplicates(duplicates, dry_run=dry_run)
DeleteDuplicates ==
    /\ phase = "found"
    /\ \E dry \in BOOLEAN, failures \in SUBSET cloudinary :
           LET done == delete_duplicates(duplicates, dry, failures)
           IN  /\ failures = done.errors
               /\ dry_run' = dry
               /\ delete_calls' = done.calls
               /\ delete_errors' = done.errors
               /\ total_deleted' = Len(done.deleted)
               /\ cloudinary' = cloudinary \ {done.deleted[i] : i \in 1..Len(done.deleted)}
    /\ phase' = "done"
    /\ UNCHANGED <<listed, duplicates>>

-----------------------------------------------------------------------------
(* generate_jerseys_csv.py: the pagination loop, one request per step, over *)
(* a service whose responses carry any IsTruncated with or without a token. *)

\* The most pages of a listing, and the most requests of a run of the loop.
MaxPages == 3
MaxRequests == 5

\* The Contents of the i-th page: one object, or no 'Contents' key at all.
PageContents(i) ==
    {<<>>, <<[Key |-> AllJerseysPrefix \o str(i) \o <<".", "p", "n", "g">>]>>}

\* The responses of a listing of n pages: the token of a page names the next
\* page, the last page has none (0), and IsTruncated is either value on any.
Listings(n) ==
    {[i \in 1..n |-> [Contents |-> c[i], IsTruncated |-> t[i],
                      NextContinuationToken |-> IF i < n THEN i + 1 ELSE 0]] :
         c \in {f \in [1..n -> UNION {PageContents(i) : i \in 1..n}] :
                    \A i \in 1..n : f[i] \in PageContents(i)},
         t \in [1..n -> BOOLEAN]}

\* s3_client.list_objects_v2(..., ContinuationToken=t), or without a token:
\* the page the token names, or the first page.
Response(pages, t) == pages[IF t = 0 THEN 1 ELSE t]

LoopIdle ==
    /\ bucket_pages = <<>> /\ token = 0 /\ collected = <<>> /\ requested = <<>>
    /\ looping = FALSE

\* all_objects = []; continuation_token = None
LoopInit ==
    /\ bucket_pages \in UNION {Listings(n) : n \in 1..MaxPages}
    /\ token = 0 /\ collected = <<>> /\ requested = <<>> /\ looping = TRUE

\* One pass of "while True": the request, all_objects.extend, and either the
\* next token or the break.
RequestPage ==
    /\ looping /\ Len(requested) < MaxRequests
    /\ LET response == Response(bucket_pages, token)
       IN  /\ requested' = Append(requested, IF token = 0 THEN 1 ELSE token)
           /\ collected' = collected \o response.Contents
           /\ IF response.IsTruncated
                  THEN token' = response.NextContinuationToken /\ looping' = TRUE
                  ELSE token' = token /\ looping' = FALSE
    /\ UNCHANGED bucket_pages

-----------------------------------------------------------------------------
(* The specifications.                                                      *)

ToolsIdle == UploadIdle /\ CleanerIdle /\ LoopIdle

InitCanon == CanonInit /\ SlugIdle /\ GroupIdle /\ PipeIdle /\ CoverIdle /\ ToolsIdle

NextCanon == Canonicalize /\ UNCHANGED <<slugVars, groupVars, pipeVars, coverVars, toolVars>>

SpecCanon == InitCanon /\ [][NextCanon]_vars

InitSlug == SlugInit /\ CanonIdle /\ GroupIdle /\ PipeIdle /\ CoverIdle /\ ToolsIdle

NextSlug == MakeSlug /\ UNCHANGED <<canonVars, groupVars, pipeVars, coverVars, toolVars>>

InitGroup == GroupInit /\ CanonIdle /\ SlugIdle /\ PipeIdle /\ CoverIdle /\ ToolsIdle

NextGroup ==
    \/ GroupNextImage /\ UNCHANGED <<canonVars, slugVars, pipeVars, coverVars, toolVars>>
    \/ GroupNextImageExtractor /\ UNCHANGED <<canonVars, slugVars, pipeVars, coverVars, toolVars>>
    \/ GroupSort /\ UNCHANGED <<canonVars, slugVars, pipeVars, coverVars, toolVars>>
    \/ GroupNextObject /\ UNCHANGED <<canonVars, slugVars, pipeVars, coverVars, toolVars>>
    \/ GroupSortObjects /\ UNCHANGED <<canonVars, slugVars, pipeVars, coverVars, toolVars>>

SpecGroup == InitGroup /\ [][NextGroup]_vars

SpecSlug == InitSlug /\ [][NextSlug]_vars

Init == PipeInit /\ CanonIdle /\ SlugIdle /\ GroupIdle /\ CoverIdle /\ ToolsIdle

Next ==
    \/ RunJerseys({0}) /\ UNCHANGED <<canonVars, slugVars, groupVars, coverVars, toolVars>>
    \/ RunGenerateJerseys({0}) /\ UNCHANGED <<canonVars, slugVars, groupVars, coverVars, toolVars>>
    \/ RunColeccion({0}) /\ UNCHANGED <<canonVars, slugVars, groupVars, coverVars, toolVars>>
    \/ RunCapsula({0}) /\ UNCHANGED <<canonVars, slugVars, groupVars, coverVars, toolVars>>
    \/ RunGenerateCapsule({0}) /\ UNCHANGED <<canonVars, slugVars, groupVars, coverVars, toolVars>>
    \/ RunGenerateCollections({0}) /\ UNCHANGED <<canonVars, slugVars, groupVars, coverVars, toolVars>>
    \/ Upload /\ UNCHANGED <<canonVars, slugVars, groupVars, coverVars, toolVars>>

Spec == Init /\ [][Next]_vars

InitList == ListInit /\ CanonIdle /\ SlugIdle /\ GroupIdle /\ CoverIdle /\ ToolsIdle

NextList ==
    \/ RunJerseys(0..MaxListing) /\ UNCHANGED <<canonVars, slugVars, groupVars, coverVars, toolVars>>
    \/ RunGenerateJerseys(0..MaxListing) /\ UNCHANGED <<canonVars, slugVars, groupVars, coverVars, toolVars>>
    \/ RunColeccion(0..MaxListing) /\ UNCHANGED <<canonVars, slugVars, groupVars, coverVars, toolVars>>
    \/ RunCapsula(0..MaxListing) /\ UNCHANGED <<canonVars, slugVars, groupVars, coverVars, toolVars>>
    \/ RunGenerateCapsule(0..MaxListing) /\ UNCHANGED <<canonVars, slugVars, groupVars, coverVars, toolVars>>
    \/ RunGenerateCollections(0..MaxListing) /\ UNCHANGED <<canonVars, slugVars, groupVars, coverVars, toolVars>>

SpecList == InitList /\ [][NextList]_vars

InitCover == CoverInit /\ CanonIdle /\ SlugIdle /\ GroupIdle /\ PipeIdle /\ ToolsIdle

NextCover ==
    \/ NameCover /\ UNCHANGED <<canonVars, slugVars, groupVars, pipeVars, toolVars>>
    \/ SlugCover /\ UNCHANGED <<canonVars, slugVars, groupVars, pipeVars, toolVars>>

SpecCover == InitCover /\ [][NextCover]_vars

InitUpload ==
    /\ UploadInit /\ CanonIdle /\ SlugIdle /\ GroupIdle /\ PipeIdle /\ CoverIdle
    /\ CleanerIdle /\ LoopIdle

NextUpload ==
    \/ CheckClient /\ UNCHANGED <<canonVars, slugVars, groupVars, pipeVars, coverVars, cleanerVars,
                                         loopVars>>
    \/ BackupTable /\ UNCHANGED <<canonVars, slugVars, groupVars, pipeVars, coverVars, cleanerVars,
                                         loopVars>>
    \/ ReadCsv /\ UNCHANGED <<canonVars, slugVars, groupVars, pipeVars, coverVars, cleanerVars,
                                         loopVars>>
    \/ ValidateProducts /\ UNCHANGED <<canonVars, slugVars, groupVars, pipeVars, coverVars, cleanerVars,
                                         loopVars>>
    \/ Confirm /\ UNCHANGED <<canonVars, slugVars, groupVars, pipeVars, coverVars, cleanerVars,
                                         loopVars>>
    \/ TruncateTable /\ UNCHANGED <<canonVars, slugVars, groupVars, pipeVars, coverVars, cleanerVars,
                                         loopVars>>
    \/ UploadToTable /\ UNCHANGED <<canonVars, slugVars, groupVars, pipeVars, coverVars, cleanerVars,
                                         loopVars>>

SpecUpload == InitUpload /\ [][NextUpload]_vars

InitCleaner ==
    /\ CleanerInit /\ CanonIdle /\ SlugIdle /\ GroupIdle /\ PipeIdle /\ CoverIdle
    /\ UploadIdle /\ LoopIdle

NextCleaner ==
    \/ FindDuplicates
           /\ UNCHANGED <<canonVars, slugVars, groupVars, pipeVars, coverVars, uploadVars,
                          loopVars>>
    \/ DeleteDuplicates
           /\ UNCHANGED <<canonVars, slugVars, groupVars, pipeVars, coverVars, uploadVars,
                          loopVars>>

SpecCleaner == InitCleaner /\ [][NextCleaner]_vars

InitLoop ==
    /\ LoopInit /\ CanonIdle /\ SlugIdle /\ GroupIdle /\ PipeIdle /\ CoverIdle
    /\ UploadIdle /\ CleanerIdle

NextLoop ==
    RequestPage
        /\ UNCHANGED <<canonVars, slugVars, groupVars, pipeVars, coverVars, uploadVars,
                       cleanerVars>>

SpecLoop == InitLoop /\ [][NextLoop]_vars

-----------------------------------------------------------------------------
(* Properties of extract_product_name (SpecCanon).                          *)

\* The filename as the grammar reads it: as it is, and without its extension.
C8_Readings(fn) ==
    {fn} \cup {Upto(fn, Len(fn) - Len(ext)) : ext \in {e \in Extensions \ {<<>>} : endswith(fn, e)}}

C8_IsDigitSeg(seg) == Len(seg) \in {1, 2} /\ isdigit(seg)

\* The <name> segments of f read as <name>_<code6> or <name>_<d>_<code6>.
C8_NameParts(f) ==
    LET parts == split(f, "_")
        n == Len(parts)
    IN  IF n >= 3 /\ C8_IsDigitSeg(parts[n - 1])
            THEN SubSeq(parts, 1, n - 2)
            ELSE SubSeq(parts, 1, n - 1)

\* f has the form <name>_<code6> or <name>_<d>_<code6> with a non-empty <name>
\* none of whose segments is a digit segment or a code segment.
C8_InGrammar(f) ==
    LET parts == split(f, "_")
        n == Len(parts)
        nameParts == C8_NameParts(f)
    IN  /\ n >= 2
        /\ IsCode6(parts[n])
        /\ join(nameParts, "_") # <<>>
        /\ \A i \in 1..Len(nameParts) :
               ~C8_IsDigitSeg(nameParts[i]) /\ ~IsCode6(nameParts[i])

C8_Expected(f) == strip(replace(join(C8_NameParts(f), "_"), "_", " "))

\* C8: for every filename of the form <name>_<code6> or <name>_<d>_<code6>
\* (d of 1-2 digits, code6 of 6 ASCII alphanumerics, <name> non-empty and without
\* digit or code segments), with or without a file extension,
\* extract_product_name returns <name> with underscores as spaces, trimmed.
C8_DelimiterPlusCode ==
    product_name # NULL =>
        \A f \in C8_Readings(filename) :
            C8_InGrammar(f) => product_name = C8_Expected(f)

-----------------------------------------------------------------------------
(* Properties of create_slug (SpecSlug).                                    *)

\* C10: create_slug returns only characters of [a-z0-9-], with no two
\* consecutive hyphens and no leading or trailing hyphen, for every name of
\* letters of either case, digits, blanks, hyphens, accented letters and
\* punctuation.
C10_SlugAlphabet ==
    slug # NULL =>
        /\ \A i \in 1..Len(slug) : slug[i] \in Lowers \cup Digits \cup {"-"}
        /\ \A i \in 1..(Len(slug) - 1) : ~(slug[i] = "-" /\ slug[i + 1] = "-")
        /\ slug # <<>> => slug[1] # "-" /\ slug[Len(slug)] # "-"

\* A slug of two words was made of a name that holds an accented letter, an
\* upper-case letter and a blank.
C10_Witness ==
    /\ slug = <<"b", "-", "a">>
    /\ \E i, j, k \in 1..Len(name) :
           name[i] \in OtherLetters /\ name[j] \in Whitespace /\ name[k] = "B"

-----------------------------------------------------------------------------
(* Properties of the groupers (SpecGroup).                                  *)

Grouped == pc = "done" /\ script \in {"jerseys.py", "extractor.py"}

\* The filename of the k-th image of the listing.
ListedFilename(k) == Basename(images[k].public_id)

\* The place in the listing of the image of a URL.
ListingIndex(url) == CHOOSE k \in 1..Len(images) : ToStr(images[k].secure_url) = url

\* The URLs of every group, whether still paired with their digit or not.
GroupedUrls ==
    { IF pc = "done" THEN products[p].images[i] ELSE products[p].images[i][2] :
        <<p, i>> \in {x \in (1..Len(products)) \X (1..MaxImages + 1) :
                        x[2] <= Len(products[x[1]].images)} }

\* The filename carries a sequence number: a segment of 1-2 digits before the
\* storage code, after a name.
C6_Numbered(fn) ==
    LET parts == split(fn, "_")
        n == Len(parts)
    IN  n >= 3 /\ IsCode6(parts[n]) /\ C8_IsDigitSeg(parts[n - 1])

C6_Number(fn) == LET parts == split(fn, "_") IN int(parts[Len(parts) - 1])

\* a sorts strictly before b: by number, a numbered one before one without.
C6_Before(a, b) ==
    /\ C6_Numbered(a)
    /\ C6_Numbered(b) => C6_Number(a) < C6_Number(b)

C6_SameKey(a, b) ==
    IF C6_Numbered(a) /\ C6_Numbered(b) THEN C6_Number(a) = C6_Number(b)
    ELSE ~C6_Numbered(a) /\ ~C6_Numbered(b)

\* C6: when group_images_by_product (jerseys.py, extractor.py) has returned,
\* in every product the URLs are in ascending order of the sequence number
\* their filenames carry (the 1-2 digit segment before the storage code), a
\* URL whose filename carries none comes after every numbered one, and URLs
\* of equal key are in listing order.
C6_ImageOrder ==
    Grouped =>
        \A p \in 1..Len(products) :
            \A i, j \in 1..Len(products[p].images) :
                i < j =>
                    LET a == ListingIndex(products[p].images[i])
                        b == ListingIndex(products[p].images[j])
                    IN  \/ C6_Before(ListedFilename(a), ListedFilename(b))
                        \/ C6_SameKey(ListedFilename(a), ListedFilename(b)) /\ a < b

\* The (canonical name, sequence number) pair of the k-th image, as the
\* grouper computes it.
C7_Pair(k) ==
    <<ToStr(extract_product_name(ListedFilename(k))), DigitNumber(splitext(ListedFilename(k)))>>

C7_Excluded(k) == splitext(ListedFilename(k)) \in delete_list

\* The k-th image comes after a non-excluded image of the same pair.
C7_Later(k) ==
    /\ ~C7_Excluded(k)
    /\ \E j \in 1..(k - 1) : ~C7_Excluded(j) /\ C7_Pair(j) = C7_Pair(k)

\* The step of the loop over an image whose pair was seen: one more duplicate,
\* nothing else.
C7_DuplicateStep ==
    (script = "jerseys.py" /\ pc = "loop" /\ idx' = idx + 1 /\ C7_Later(idx + 1)) =>
        /\ duplicate_count' = duplicate_count + 1
        /\ UNCHANGED <<products, seen_combinations, skipped_count>>

\* Of the images gone through, the groups hold the URL of the first of every
\* pair and of no later one, and every later one was counted.
C7_FirstWins ==
    script = "jerseys.py" =>
        /\ \A k \in 1..idx :
               (ToStr(images[k].secure_url) \in GroupedUrls) <=> (~C7_Excluded(k) /\ ~C7_Later(k))
        /\ duplicate_count = Cardinality({k \in 1..idx : C7_Later(k)})

\* C7: in jerseys.group_images_by_product, of the non-excluded images of one
\* (canonical name, sequence number) pair only the first of the listing has
\* its URL in a group; every later one adds exactly one to duplicate_count
\* and leaves the groups, the seen set and skipped_count as they were.
C7_DuplicateSuppression == []C7_FirstWins /\ [][C7_DuplicateStep]_vars

\* A listing of three images was grouped: the second upload of image 1 of
\* "Re" was dropped and counted, image 1 and image 2 are in the group.
C7_Witness ==
    /\ pc = "done" /\ script = "jerseys.py"
    /\ Len(images) = 3 /\ delete_list = {}
    /\ duplicate_count = 1
    /\ Len(products) = 1 /\ products[1].name = "Re"
    /\ products[1].images = <<"https://cdn/Re_1_ab12cd.jpg", "https://cdn/Re_2_xy99qw.jpg">>
    /\ ToStr(images[1].public_id) = "Re_2_xy99qw"
    /\ ToStr(images[3].public_id) = "Re_1_zz00zz"

\* The k-th image of the listing has its filename without extension in the
\* delete list.
C14_Excluded(k) == splitext(ListedFilename(k)) \in delete_list

\* The (canonical name, sequence number) pair the grouper computes of the k-th image.
C14_Key(k) ==
    <<ToStr(extract_product_name(ListedFilename(k))), DigitNumber(splitext(ListedFilename(k)))>>

C15_Surviving ==
    {k \in 1..idx : /\ ~C14_Excluded(k)
                    /\ ~\E j \in 1..(k - 1) : ~C14_Excluded(j) /\ C14_Key(j) = C14_Key(k)}

\* The places <<group, position>> where a URL stands in the groups.
C15_Places(url) ==
    {x \in (1..Len(products)) \X (1..MaxImages + 1) :
        /\ x[2] <= Len(products[x[1]].images)
        /\ url = (IF pc = "done" THEN products[x[1]].images[x[2]]
                                 ELSE products[x[1]].images[x[2]][2])}

\* C15 (one non-empty group per canonical name): group_images_by_product of
\* jerseys.py holds exactly one group for each canonical name among the
\* surviving images, every group holds at least one URL, and the URL of every
\* surviving image stands in exactly one group exactly once.
C15_OneGroupPerName ==
    script = "jerseys.py" =>
        /\ {products[p].name : p \in 1..Len(products)} = {C14_Key(k)[1] : k \in C15_Surviving}
        /\ \A p, q \in 1..Len(products) : products[p].name = products[q].name => p = q
        /\ \A p \in 1..Len(products) : Len(products[p].images) >= 1
        /\ \A k \in C15_Surviving : Cardinality(C15_Places(ToStr(images[k].secure_url))) = 1

\* Three images were grouped into two groups: two images of one product
\* stand in one group, the image of another product in a second one.
C15_Witness ==
    /\ pc = "done" /\ script = "jerseys.py"
    /\ Len(images) = 3 /\ C15_Surviving = {1, 2, 3}
    /\ Len(products) = 2
    /\ \E p \in 1..2 : Len(products[p].images) = 2

\* No pattern of the canonicalizer matches a filename whose last segment is
\* no storage code.
C9_NoPattern(fn) ==
    LET parts == split(fn, "_") IN ~(Len(parts) >= 2 /\ IsCode6(parts[Len(parts)]))

\* The k-th image of the listing has its URL in a group, of the name nm when
\* no pattern matches its filename.
C9_Kept(k, nm) ==
    \E p \in 1..Len(products) :
        /\ \E i \in 1..Len(products[p].images) : products[p].images[i] = ToStr(images[k].secure_url)
        /\ C9_NoPattern(ListedFilename(k)) => products[p].name = nm

C9_ObjectFilename(k) == removeAll(s3_objects[k].Key, AllJerseysPrefix)

C9_ObjectGrouped(k) ==
    \E g \in 1..Len(jersey_groups) :
        \E i \in 1..Len(jersey_groups[g].images) :
            jersey_groups[g].images[i].url = S3Url(s3_objects[k].Key)

-----------------------------------------------------------------------------
(* Properties of the runs (Spec).                                           *)

\* A step that is one run of the program.
IsRun == runs' = runs + 1

IsPrefix(s, t) == Len(s) <= Len(t) /\ SubSeq(t, 1, Len(s)) = s

C1_Programs == {"jerseys.py", "coleccion.py", "generate_capsule_csv.py"}

\* A second run on the listing the run before saw, the table read without
\* an exception by both.
C1_Rerun ==
    /\ IsRun /\ program \in C1_Programs
    /\ runs >= 1 /\ unchanged /\ ~read_raised /\ ~read_raised'

\* C1 (idempotence of a rerun): when jerseys.py, coleccion.py or
\* generate_capsule_csv.py runs again on the listing the run before saw, and
\* neither run's reading of the table raised, the second run creates no entity
\* and leaves the table file as the first run left it.
C1_RerunIdempotent ==
    [][C1_Rerun => new_entities' = <<>> /\ csv' = csv]_vars

\* The persisted set a run of the product programs and of
\* generate_capsule_csv.py works with: the keys its loader returns, and the
\* rows it read them from.
C2_Programs == {"jerseys.py", "generate_jerseys_csv.py", "generate_capsule_csv.py"}

C2_PersistedKeys ==
    IF program = "generate_capsule_csv.py" THEN load_existing_csv(csv).existing_urls
    ELSE load_existing_products(csv)

C2_PersistedRows ==
    IF ~csv.exists \/ ~csv.header THEN 0
    ELSE IF program = "generate_capsule_csv.py" THEN Len(load_existing_csv(csv).existing_data)
    ELSE Len(csv.rows)

C2_Key(row) == IF program = "generate_capsule_csv.py" THEN row.cover ELSE row.name

C2_RunPreserves ==
    /\ \A i \in 1..Len(new_entities') : C2_Key(new_entities'[i]) \notin C2_PersistedKeys
    /\ \A j \in 1..C2_PersistedRows :
           /\ C2_Key(csv.rows[j]) \in C2_PersistedKeys
           /\ j <= Len(csv'.rows)
           /\ csv'.rows[j] = csv.rows[j]

C3_AppendOnly == [][IsRun => IsPrefix(csv.rows, csv'.rows)]_vars

\* C4 (identity keys stay unique): starting from an absent table, no two rows
\* written by runs of coleccion.py or capsula.py have the same Name.
C4_UniqueNames ==
    (origin = "absent" /\ program \in {"coleccion.py", "capsula.py"})
        => \A i, j \in 1..Len(csv.rows) : csv.rows[i].Name = csv.rows[j].Name => i = j

\* The k-th asset of the listing is a jersey image that delete.txt does not
\* exclude, of the product nm.
C16_Encounter(k, nm) ==
    /\ get_jersey_images_only(<<listing[k]>>) # <<>>
    /\ splitext(Basename(listing[k].public_id)) \notin delete_txt
    /\ ToStr(extract_product_name(Basename(listing[k].public_id))) = nm

\* The place in the listing of the first surviving asset of the product nm,
\* 0 when the listing holds none.
C16_FirstEncounter(nm) ==
    LET ks == {k \in 1..Len(listing) : C16_Encounter(k, nm)}
    IN  IF ks = {} THEN 0 ELSE CHOOSE k \in ks : \A j \in ks : k <= j

\* The place in the listing of the cover with the URL url, 0 when it holds none.
C16_CoverPlace(url) ==
    LET ks == {k \in 1..Len(listing) : ToStr(listing[k].secure_url) = url}
    IN  IF ks = {} THEN 0 ELSE CHOOSE k \in ks : \A j \in ks : k <= j

\* The place in the listing that stands for the i-th row of rows.
C16_Place(rows, i) ==
    IF program = "jerseys.py" THEN C16_FirstEncounter(rows[i].name)
    ELSE C16_CoverPlace(rows[i].cover)

C17_Programs ==
    {"jerseys.py", "coleccion.py", "generate_jerseys_csv.py", "generate_capsule_csv.py",
     "generate_collections_csv.py"}

\* C17 (the whole listing is consumed): a run of jerseys.py, coleccion.py,
\* generate_jerseys_csv.py, generate_capsule_csv.py or
\* generate_collections_csv.py none of whose listing calls raised has got
\* every asset of every page of the listing.
C17_WholeListing ==
    [][(IsRun /\ program \in C17_Programs /\ ~fetch_raised') => fetched' = listing]_vars

\* C18 (a listing failure writes nothing): a run one of whose listing calls
\* raised, the first or a later one, leaves the table file as it was and
\* creates no entity.
C18_ListingFailure ==
    [][(IsRun /\ fetch_raised') => csv' = csv /\ new_entities' = <<>>]_vars

\* A run of jerseys.py over a listing of two pages, whose two assets the run
\* would have made rows of, had a listing call raise: no file was created.
C18_Witness ==
    /\ program = "jerseys.py" /\ runs = 1 /\ fetch_raised
    /\ page_size = 1 /\ Len(listing) = 2
    /\ Len(jerseys_main(NoFile, listing, delete_txt, 0).new) = 2
    /\ origin = "absent" /\ csv = NoFile /\ new_entities = <<>>

C19_Programs == {"jerseys.py", "coleccion.py", "generate_capsule_csv.py"}

\* The entities the r-th run makes of the assets got when no table file is
\* there: the merge against an empty persisted set.
C19_AgainstEmpty(got, r) ==
    CASE program = "jerseys.py" -> jerseys_main(NoFile, got, delete_txt, r).new
      [] program = "coleccion.py" ->
            save_collections_to_csv(NoFile, get_collection_covers(got)).new
      [] program = "generate_capsule_csv.py" -> generate_cover_csv(NoFile, got, "capsule").new

\* C19 (a read failure means an empty persisted set): a run of jerseys.py,
\* coleccion.py or generate_capsule_csv.py whose loading of the table raised,
\* at the first row or a later one, creates exactly the entities it would
\* create with no table, the integer ids starting at 1.
C19_ReadFailure ==
    [][(IsRun /\ program \in C19_Programs /\ read_raised' /\ ~fetch_raised')
         => new_entities' = C19_AgainstEmpty(fetched', runs)]_vars

\* The programs of save_products_to_csv and save_collections_to_csv.
C20_Programs == {"jerseys.py", "coleccion.py"}

\* A table file that holds rows holds the header line before them.
C20_OneHeader ==
    (program \in C20_Programs /\ csv.exists /\ csv.rows # <<>>) => csv.header

\* A run writes the header line if and only if it creates the file, and its
\* new rows after the rows the file held.
C20_RunStep ==
    (IsRun /\ program \in C20_Programs)
        => /\ (csv'.header /\ ~csv.header) <=> (csv'.exists /\ ~csv.exists)
           /\ csv'.rows = csv.rows \o new_entities'

\* C20 (header discipline of the appending writers): after any runs of
\* jerseys.py or coleccion.py from a table file that is absent, present with
\* rows or present without a byte, the file is one header line followed by
\* data rows only; a run writes the header if and only if it creates the
\* file, and writes its new rows after the existing ones.
C20_HeaderDiscipline == []C20_OneHeader /\ [][C20_RunStep]_vars

\* The programs whose rows carry an integer id.
IntegerIdPrograms ==
    {"coleccion.py", "capsula.py", "generate_capsule_csv.py", "generate_collections_csv.py"}

\* The maximum id over all rows of the table whose id is a number, 0 without one.
C5_MaxId(rows) ==
    LET ids == {int(strip(rows[i].id)) : i \in {k \in 1..Len(rows) : IsInt(rows[k].id)}}
    IN  IF ids = {} THEN 0 ELSE Max(ids)

\* C5 (sequential id assignment): the i-th entity a run of an integer-id
\* program creates gets the maximum id over all rows of the table plus i.
C5_SequentialIds ==
    [][IsRun /\ program \in IntegerIdPrograms
          => \A i \in 1..Len(new_entities') :
                 int(new_entities'[i].id) = C5_MaxId(csv.rows) + i]_vars

-----------------------------------------------------------------------------
(* Properties of the slugs and the names of covers (SpecSlug, SpecCover).   *)

CoverSuffix == <<"-", "c", "o", "l", "e", "c", "c", "i", "o", "n">>

\* C11 (suffixed slugs of the S3 cover generators): the slug that
\* generate_capsule_csv.py and generate_collections_csv.py make of a cleaned
\* name holds only a-z, 0-9 and hyphens, no two hyphens in a row, and ends
\* with -coleccion.
C11_SuffixedSlug ==
    (cover_script \in {"generate_capsule_csv.py", "generate_collections_csv.py"}
         /\ cover_slug # NULL)
        => /\ \A i \in 1..Len(cover_slug) : cover_slug[i] \in Lowers \cup Digits \cup {"-"}
           /\ ~Contains(cover_slug, <<"-", "-">>)
           /\ endswith(cover_slug, CoverSuffix)

\* A name with its accents removed: the marks of its decomposed form dropped.
C12_Unaccent(nm) == SelectSeq(NFD(nm), LAMBDA c : c \notin Marks)

\* C12 (diacritic folding in slugs): create_slug of a name is create_slug of
\* the name with its accents removed.
C12_DiacriticFolding ==
    slug # NULL => slug = create_slug(C12_Unaccent(name))

C13_Segments == split(cover_filename, "_")

C13_Markers == {i \in 1..Len(C13_Segments) : C13_Segments[i] = <<"Z", "X", "Z", "X">>}

\* The segments before the first marker joined by single spaces, trimmed and
\* title-cased.
C13_ExpectedName ==
    LET first == CHOOSE i \in C13_Markers : \A j \in C13_Markers : i <= j
    IN  title(strip(join(SubSeq(C13_Segments, 1, first - 1), " ")))

\* The words of a name in lower case joined by hyphens.
C13_HyphenForm(nm) == join(splitBlank(lower(nm)), "-")

\* C13 (marker-token rule): of a filename with a segment ZXZX
\* extract_collection_name returns the segments before the first such segment
\* joined by spaces, trimmed and title-cased, and create_slug of that name is
\* its lower-case hyphen-joined form.
C13_MarkerRule ==
    (cover_script = "coleccion.py" /\ C13_Markers # {})
        => /\ cover_name # NULL => cover_name = C13_ExpectedName
           /\ cover_slug # NULL => cover_slug = C13_HyphenForm(cover_name)

\* The keyword of generate_capsule_csv.py and the places of the filename,
\* without its extension and composed, where it stands in any letter case.
C21_Keyword == <<"C", "o", "l", "e", "c", "c", "i", "<o'>", "n">>

C21_Normalized == NFC(splitext(cover_filename))

C21_Occurrences ==
    {i \in 0..Len(C21_Normalized) : MatchesAt(Fold(C21_Normalized), i, Fold(C21_Keyword))}

\* C21 (keyword-split rule of generate_capsule_csv.py): of a filename that
\* holds the keyword Colección in any letter case, the cleaned name is the part
\* of the filename before the first occurrence of the keyword, trimmed.
C21_KeywordSplit ==
    (cover_script = "generate_capsule_csv.py" /\ cover_name # NULL /\ C21_Occurrences # {})
        => LET first == CHOOSE i \in C21_Occurrences : \A j \in C21_Occurrences : i <= j
           IN  cover_name = strip(Upto(C21_Normalized, first))

-----------------------------------------------------------------------------
(* Properties of names and sequence numbers in jerseys.py (SpecGroup).      *)

\* The underscore-separated segments of the k-th image's filename, without
\* its extension.
C22_Parts(k) == split(splitext(ListedFilename(k)), "_")

\* The k-th filename read as <name>_<code6>, the last segment of <name> being
\* a number of one or two digits.
C22_NameEndsInNumber(k) ==
    LET parts == C22_Parts(k)
        n == Len(parts)
    IN  n >= 3 /\ IsCode6(parts[n]) /\ Len(parts[n - 1]) \in {1, 2} /\ isdigit(parts[n - 1])

\* The whole <name> of the k-th filename, its underscores as spaces.
C22_WholeName(k) ==
    LET parts == C22_Parts(k)
    IN  strip(replace(join(SubSeq(parts, 1, Len(parts) - 1), "_"), "_", " "))

\* C22 (un-numbered files whose name ends in a number): of a filename
\* <name>_<code6> without a sequence segment, as Mexico_Blanca_98_mc3kua in the
\* docstring of extract_product_name, the grouper of jerseys.py registers the
\* whole <name> with its underscores as spaces, and no sequence number, also
\* when the last segment of <name> is a number of one or two digits.
C22_NameEndingInNumber ==
    script = "jerseys.py" =>
        \A k \in 1..idx :
            (C22_NameEndsInNumber(k) /\ splitext(ListedFilename(k)) \notin delete_list)
                => <<ToStr(C22_WholeName(k)), NoDigit>> \in seen_combinations

\* The total number of URLs over the groups.
RECURSIVE C28_Urls(_)
C28_Urls(prods) == IF prods = <<>> THEN 0 ELSE Len(Head(prods).images) + C28_Urls(Tail(prods))

\* C28 (count conservation in grouping): at the end of
\* jerseys.group_images_by_product the number of input images is skipped_count
\* + duplicate_count + the number of URLs over all groups, and the number of
\* seen (name, sequence) keys is that number of URLs.
C28_CountConservation ==
    (script = "jerseys.py" /\ pc = "done")
        => /\ Len(images) = skipped_count + duplicate_count + C28_Urls(products)
           /\ Cardinality(seen_combinations) = C28_Urls(products)

\* A listing of which one image was excluded, one dropped as a duplicate and
\* one grouped.
C28_Witness ==
    /\ script = "jerseys.py" /\ pc = "done"
    /\ skipped_count = 1 /\ duplicate_count = 1 /\ C28_Urls(products) = 1

-----------------------------------------------------------------------------
(* Properties of extract_product_name with the grouper's digit pattern      *)
(* (SpecCanon).                                                             *)

C27_Parts == split(splitext(filename), "_")

\* The filename, without its extension, has a segment of one or two digits
\* before its last segment.
C27_HasNumber ==
    /\ Len(C27_Parts) >= 2
    /\ Len(C27_Parts[Len(C27_Parts) - 1]) \in {1, 2}
    /\ isdigit(C27_Parts[Len(C27_Parts) - 1])

\* The name is the one of the segments before that segment.
C27_Removed ==
    product_name
        = strip(replace(join(SubSeq(C27_Parts, 1, Len(C27_Parts) - 2), "_"), "_", " "))

\* The grouper's digit pattern gives that segment's value.
C27_Assigned == DigitNumber(splitext(filename)) = int(C27_Parts[Len(C27_Parts) - 1])

\* C27 (name and sequence number are extracted consistently in jerseys.py):
\* extract_product_name removes the trailing segment of one or two digits from
\* the name if and only if the digit pattern of group_images_by_product gives
\* that segment's value as the sequence number; otherwise the number is 999.
C27_Consistent ==
    product_name # NULL =>
        IF C27_HasNumber
            THEN /\ C27_Removed <=> C27_Assigned
                 /\ ~C27_Assigned => DigitNumber(splitext(filename)) = NoDigit
            ELSE DigitNumber(splitext(filename)) = NoDigit

-----------------------------------------------------------------------------
(* Properties of upload_single_table (SpecUpload).                          *)

\* C23 (price gate of the products upload): when upload_single_table has
\* inserted the rows of products.csv, validate_products_data accepted every
\* row read and every product in the remote table has a price that is a
\* number other than zero.
C23_PriceGate ==
    (table_name = "products" /\ returned = "True")
        => /\ validate_products_data(data)
           /\ \A i \in 1..Len(remote_table) : remote_table[i].price.float # 0

\* The calls, with what they returned, that come before truncate_table.
C26_BeforeTruncate ==
    <<[call |-> "backup_table", returned |-> "True"],
      [call |-> "read_csv_file", returned |-> "rows"]>>
        \o (IF table_name = "products"
                THEN <<[call |-> "validate_products_data", returned |-> "True"]>>
                ELSE <<>>)

\* truncate_table is called only after backup_table returned True, the file
\* gave rows, the products were found valid and the operator answered yes or
\* y, in this order; upload_to_table only right after truncate_table
\* returned True.
C26_Order ==
    \A i \in 1..Len(log) :
        /\ log[i].call = "truncate_table"
               => /\ i = Len(C26_BeforeTruncate) + 2
                  /\ SubSeq(log, 1, i - 2) = C26_BeforeTruncate
                  /\ log[i - 1].call = "input" /\ log[i - 1].returned \in {"yes", "y"}
                  /\ Len(data) >= 1
        /\ log[i].call = "upload_to_table"
               => i > 1 /\ log[i - 1] = [call |-> "truncate_table", returned |-> "True"]

\* A step that calls neither truncate_table nor upload_to_table leaves the
\* remote table as it is, and a table with rows is truncated only when a
\* backup file of this call holds these rows.
C26_Step ==
    LET called == IF Len(log') > Len(log) THEN log'[Len(log')].call ELSE "none"
    IN  /\ called \notin {"truncate_table", "upload_to_table"} => remote_table' = remote_table
        /\ (called = "truncate_table" /\ remote_table # <<>>)
               => \E b \in backups :
                      /\ b.table = table_name
                      /\ b.rows = [i \in 1..Len(remote_table) |-> WrittenRow(remote_table[i])]

\* C26 (upload protocol order): in upload_single_table the remote table is
\* truncated only after, in this order, backup_table returned True, the CSV
\* file was read with at least one row, the validation passed (products only)
\* and the operator answered yes or y; rows are inserted only after a
\* successful truncate; when an earlier step fails or the operator declines,
\* no truncate and no insert is called and the remote table stays as it was;
\* and a table with rows is truncated only with a backup file of its rows
\* written in the same call.
C26_UploadProtocol == []C26_Order /\ [][C26_Step]_vars

\* A products table with rows was backed up, truncated and filled anew.
C26_Witness ==
    /\ table_name = "products" /\ returned = "True"
    /\ backups # {} /\ Len(log) = 6
    /\ Len(remote_table) = Len(data)

\* C29 (create_slug is a projection): create_slug of a slug that create_slug
\* returned is that slug.
C29_Projection ==
    slug # NULL => create_slug(slug) = slug

\* A slug with a hyphen, made of a name that is not its own slug.
C29_Witness ==
    slug # NULL /\ slug # name /\ Contains(slug, <<"-">>)

-----------------------------------------------------------------------------
(* Properties of other/duplicate_cleaner.py (SpecCleaner).                  *)

\* The images of a group that Cloudinary still stores.
C24_Left(imgs) == {i \in 1..Len(imgs) : imgs[i].public_id \in cloudinary}

\* The sum over the groups of (size of the group - 1).
RECURSIVE C24_Surplus(_)
C24_Surplus(dups) ==
    IF dups = <<>> THEN 0 ELSE (Len(Head(dups).images) - 1) + C24_Surplus(Tail(dups))

C25_Name(k) == splitext(Basename(listed[k].public_id))

\* The k-th filename ends in an underscore and a storage code of 6 ASCII
\* alphanumerics, something before them.
C25_Coded(k) ==
    LET n == Len(C25_Name(k))
    IN  n >= 8 /\ C25_Name(k)[n - 6] = "_" /\ IsCode6(From(C25_Name(k), n - 6))

C25_BeforeCode(k) == Upto(C25_Name(k), Len(C25_Name(k)) - 7)

\* C25 (the base identifier ignores the storage code): extract_base_identifier
\* returns everything before the trailing storage code of 6 alphanumerics, and
\* two listed filenames that differ in that code only are in one group of
\* find_duplicates.
C25_BaseIdentifier ==
    phase \in {"found", "done"} =>
        /\ \A k \in 1..Len(listed) :
               C25_Coded(k)
                   => extract_base_identifier(Basename(listed[k].public_id)) = C25_BeforeCode(k)
        /\ \A j, k \in 1..Len(listed) :
               (j < k /\ C25_Coded(j) /\ C25_Coded(k) /\ C25_BeforeCode(j) = C25_BeforeCode(k))
                   => \E g \in 1..Len(duplicates) :
                          {listed[j].public_id, listed[k].public_id}
                              \subseteq {duplicates[g].images[i].public_id :
                                             i \in 1..Len(duplicates[g].images)}

-----------------------------------------------------------------------------
(* Properties of the pagination loop of generate_jerseys_csv.py (SpecLoop). *)

\* The Contents of the pages, one after the other.
RECURSIVE C30_AllContents(_)
C30_AllContents(pages) ==
    IF pages = <<>> THEN <<>> ELSE Head(pages).Contents \o C30_AllContents(Tail(pages))

\* C30 (the pagination loop of generate_jerseys_csv): the loop requests every
\* page of the listing once, in order, never the first page again, and leaves
\* after the last page with all_objects the Contents of all pages, whatever
\* IsTruncated and NextContinuationToken the responses carry.
C30_EachPageOnce ==
    /\ \A i \in 1..Len(requested) : requested[i] = i
    /\ ~looping => /\ Len(requested) = Len(bucket_pages)
                   /\ collected = C30_AllContents(bucket_pages)

=============================================================================
